---- MODULE Spec2Model ----
(***************************************************************************)
(* Ownership gate and identity resolver of the ReVamp / cat-registry       *)
(* server: routes/api.js mounted by server.js, over a Prisma document      *)
(* store (users, cats, products) and the Vercel Blob asset store.          *)
(*                                                                         *)
(* Every request handler is one action.  The inputs of a request (session, *)
(* target id, JSON body, which storage call throws, which asset removals   *)
(* throw) are drawn from small sets.  `last` records the request that was  *)
(* served last together with its response and the storage / asset calls    *)
(* it issued, in order.                                                    *)
(***************************************************************************)
EXTENDS Integers, Sequences, FiniteSets, TLC

VARIABLES users, userNext, cats, catNext, products, productNext, blobs, last,
          sent, inflight, cart, localStorage, page

\* the server's stores and the record of the request served last
server == <<users, userNext, cats, catNext, products, productNext, blobs, last>>

\* the payload of the last response (per request, the statuses answered,
\* where requests are followed step by step), the calls and requests that
\* are under way, the shop page's cart with the browser storage behind it,
\* and the cat page (currentUser and the rendered cards)
aux == <<sent, inflight, cart, localStorage, page>>

vars == <<users, userNext, cats, catNext, products, productNext, blobs, last,
          sent, inflight, cart, localStorage, page>>

----------------------------------------------------------------------------
(* Bounds *)

\* number of records (cats and products together) the store ever holds;
\* identifiers are never reused
MaxRecords == 1

----------------------------------------------------------------------------
(* Values *)

\* JavaScript null, as stored in a string-valued field
NullS == "null"
\* absent owner reference (ownerId null / missing)
NoOwner == NullS
\* identifiers the store generates for new users, in order of creation
UserIds == <<"U1", "U2">>
\* parseFloat's NaN
NaN == -1

\* asset locators (blob URLs)
Urls == {"u1", "u2"}

\* JavaScript truthiness of a string-or-null value
Truthy(v) == v \notin {NullS, ""}

\* session principals supplied by the authentication provider (req.oidc.user)
Principals ==
    { [sub |-> "s1", name |-> "Ann", email |-> "ann@x"],
      [sub |-> "s2", name |-> "Bob", email |-> "", picture |-> "pic2"] }

\* a request without an authenticated session
NoSession == [anonymous |-> TRUE]

Sessions == {NoSession} \cup Principals

\* variant: the session check always passes
IsAuthenticatedAlways(sess) == TRUE

\* req.oidc?.isAuthenticated()
IsAuthenticated(sess) == "sub" \in DOMAIN sess

----------------------------------------------------------------------------
(* Storage engine (Prisma over MongoDB) *)

\* the record of a collection with the given id, as a set of zero or one
ById(coll, rid) == {r \in coll : r.id = rid}

\* findUnique({where: {id}, include: {owner: true}}): the owner relation is
\* the user whose id is the record's ownerId, or none
OwnerOf(us, rec) == {u \in us : u.id = rec.ownerId}

\* object rest destructuring: the body without the named keys
Omit(body, keys) == [k \in (DOMAIN body) \ keys |-> body[k]]

\* object destructuring of named keys: the body restricted to them
Pick(body, keys) == [k \in (DOMAIN body) \cap keys |-> body[k]]

\* update({data}): fields named in data are overwritten, others kept
ApplyData(rec, data) ==
    [k \in DOMAIN rec |-> IF k \in DOMAIN data THEN data[k] ELSE rec[k]]

----------------------------------------------------------------------------
(* Identity Resolver *)

\* `value || null` on a principal field
OrNull(p, k) == IF k \in DOMAIN p /\ Truthy(p[k]) THEN p[k] ELSE NullS

\* variant: an empty sub passes the guard
ValidPrincipalAnySub(p) == "sub" \in DOMAIN p

\* the guard of ensureUser: !oidcUser || !oidcUser.sub throws
ValidPrincipal(p) == "sub" \in DOMAIN p /\ Truthy(p.sub)

\* req.oidc.user.sub
SessionSub(sess) == IF "sub" \in DOMAIN sess THEN sess.sub ELSE "undefined"

\* variant: the update keeps a stored field the principal does not supply
ensureUserKeepsMissing(us, nid, p) ==
    IF \E u \in us : u.sub = p.sub
    THEN LET old == CHOOSE u \in us : u.sub = p.sub
             new == [k \in DOMAIN old |->
                        IF k \in DOMAIN p /\ Truthy(p[k]) THEN p[k] ELSE old[k]]
         IN  [users |-> (us \ {old}) \cup {new}, user |-> new, next |-> nid]
    ELSE LET new == [id |-> UserIds[nid], sub |-> p.sub,
                     email |-> OrNull(p, "email"),
                     name |-> OrNull(p, "name"),
                     picture |-> OrNull(p, "picture")]
         IN  [users |-> us \cup {new}, user |-> new, next |-> nid + 1]

\* variant: an identity that is not stored yet is resolved but not stored
ensureUserWithoutCreate(us, nid, p) ==
    IF \E u \in us : u.sub = p.sub
    THEN LET old == CHOOSE u \in us : u.sub = p.sub
             new == [old EXCEPT !.email = OrNull(p, "email"),
                                !.name = OrNull(p, "name"),
                                !.picture = OrNull(p, "picture")]
         IN  [users |-> (us \ {old}) \cup {new}, user |-> new, next |-> nid]
    ELSE LET new == [id |-> UserIds[nid], sub |-> p.sub,
                     email |-> OrNull(p, "email"),
                     name |-> OrNull(p, "name"),
                     picture |-> OrNull(p, "picture")]
         IN  [users |-> us, user |-> new, next |-> nid]

\* ensureUser past its guard: upsert keyed on sub.  Result: the stored users afterwards, the
\* resolved user, and the next free user id.
ensureUser(us, nid, p) ==
    IF \E u \in us : u.sub = p.sub
    THEN LET old == CHOOSE u \in us : u.sub = p.sub
             new == [old EXCEPT !.email = OrNull(p, "email"),
                                !.name = OrNull(p, "name"),
                                !.picture = OrNull(p, "picture")]
         IN  [users |-> (us \ {old}) \cup {new}, user |-> new, next |-> nid]
    ELSE LET new == [id |-> UserIds[nid], sub |-> p.sub,
                     email |-> OrNull(p, "email"),
                     name |-> OrNull(p, "name"),
                     picture |-> OrNull(p, "picture")]
         IN  [users |-> us \cup {new}, user |-> new, next |-> nid + 1]

----------------------------------------------------------------------------
(* Requests *)

\* domain fields of a cat record (besides id and ownerId)
CatFields == {"name", "imageUrl"}

\* keys a client may not set
ProtectedKeys == {"id", "_id", "ownerId", "owner"}

\* the protected keys a request tries to set
Injections == {{}, {"id", "ownerId", "owner"}, ProtectedKeys}

\* JSON bodies of POST /data and PUT /data/:id: any subset of the keys, each
\* with a value of its kind
CatBodies ==
    { Pick([id |-> "zzz", _id |-> "zzz", ownerId |-> "other", owner |-> "other",
            name |-> n, imageUrl |-> i], keys \cup inject) :
      n \in {"n2"}, i \in {"u1"},
      keys \in SUBSET CatFields, inject \in Injections }

\* a body without keys (a request that sends none)
EmptyBody == Pick([name |-> "n1"], {})

\* what `last` holds: the request (op, sess, id, and the body when the store
\* accepted what the handler made of it), the response status,
\* the storage and asset-store calls the handler issued, in order, the fault
\* that was thrown inside the handler ("none", "storage": the store was
\* unreachable, "validation": the store rejected the arguments, "principal":
\* ensureUser rejected the principal), and the
\* locators whose removal failed and was logged
Served(op, sess, rid, body, status, calls, fault, failed) ==
    [op |-> op, sess |-> sess, id |-> rid, body |-> body, status |-> status,
     calls |-> calls, fault |-> fault, failed |-> failed]

\* the storage call with this index is the one that throws
Throws(fail, n) == fail = n

----------------------------------------------------------------------------
(* Cat endpoints: /data *)

\* the arguments of prisma.cats.create / update are valid for the schema:
\* only scalar fields of the model, never the id or the owner relation
ValidCatData(data) == DOMAIN data \subseteq CatFields \cup {"ownerId"}

\* the stored document of a create: fields not supplied are null
NewCat(rid, data) ==
    [id |-> rid,
     ownerId |-> data.ownerId,
     name |-> IF "name" \in DOMAIN data THEN data.name ELSE NullS,
     imageUrl |-> IF "imageUrl" \in DOMAIN data THEN data.imageUrl ELSE NullS]

\* variant: the record is not stamped with the resolved identity
WithOwnerUnstamped(createData, uid) ==
    [k \in DOMAIN createData \cup {"ownerId"} |->
        IF k = "ownerId" THEN NoOwner ELSE createData[k]]

\* { ...createData, ownerId: user.id }
WithOwner(createData, uid) ==
    [k \in DOMAIN createData \cup {"ownerId"} |->
        IF k = "ownerId" THEN uid ELSE createData[k]]

\* const { id, ownerId, owner, ...createData } = req.body
CreateData(body) == Omit(body, {"id", "ownerId", "owner"})

\* variant: ownerId is not taken out of the body
RequestBodyKeepsOwnerId(body) == Omit(body, {"id", "_id", "owner"})

\* const { id, _id, ownerId, owner, ...requestBody } = req.body
RequestBody(body) == Omit(body, {"id", "_id", "ownerId", "owner"})

\* variant: the gate only asks for an owner, not for the caller to be it
DataForbiddenUnlessOwned(owner, sess) == owner = {}

\* variant: the gate compares subs only when there is an owner
DataForbiddenOwnerMismatch(owner, sess) ==
    owner # {} /\ \A o \in owner : o.sub # SessionSub(sess)

\* variant: the gate compares the owner with the identity the store returns
\* for the caller's sub, by internal id
DataForbiddenByReference(owner, sess) ==
    \/ owner = {}
    \/ \A u \in users : u.sub # SessionSub(sess)
    \/ LET me == CHOOSE u \in users : u.sub = SessionSub(sess)
       IN  \A o \in owner : o.id # me.id

\* !existing.owner || existing.owner.sub !== req.oidc.user.sub
DataForbidden(owner, sess) ==
    owner = {} \/ \A o \in owner : o.sub # SessionSub(sess)

\* the store has room for one more record
CanCreate == (catNext - 1) + (productNext - 1) < MaxRecords

\* router.post('/data')
PostData(sess, body, fail) ==
    /\ CanCreate
    /\ UNCHANGED <<products, productNext, blobs>>
    /\ IF ~IsAuthenticated(sess)
       THEN /\ last' = Served("POST /data", sess, 0, EmptyBody, 401, <<>>, "none", {})
            /\ UNCHANGED <<users, userNext, cats, catNext>>
       ELSE IF ~ValidPrincipal(sess)
       THEN /\ last' = Served("POST /data", sess, 0, EmptyBody, 500, <<>>,
                              "principal", {})
            /\ UNCHANGED <<users, userNext, cats, catNext>>
       ELSE IF Throws(fail, 1)
       THEN /\ last' = Served("POST /data", sess, 0, EmptyBody, 500,
                              <<"user.upsert">>, "storage", {})
            /\ UNCHANGED <<users, userNext, cats, catNext>>
       ELSE LET e == ensureUser(users, userNext, sess)
                data == WithOwner(CreateData(body), e.user.id)
            IN  /\ users' = e.users
                /\ userNext' = e.next
                /\ IF Throws(fail, 2) \/ ~ValidCatData(data)
                   THEN /\ last' = Served("POST /data", sess, 0, EmptyBody, 500,
                                          <<"user.upsert", "cats.create">>,
                                          IF Throws(fail, 2) THEN "storage"
                                          ELSE "validation", {})
                        /\ UNCHANGED <<cats, catNext>>
                   ELSE /\ cats' = cats \cup {NewCat(catNext, data)}
                        /\ catNext' = catNext + 1
                        /\ last' = Served("POST /data", sess, catNext, body, 201,
                                          <<"user.upsert", "cats.create">>,
                                          "none", {})

\* variant: an id without record is answered like a record of someone else
NotFoundAsForbidden(rid) == 403

\* if (!existing) return res.status(404): the answer for an id without record
NotFound(rid) == 404

\* router.put('/data/:id')
PutData(sess, rid, body, fail) ==
    /\ UNCHANGED <<users, userNext, catNext, products, productNext, blobs>>
    /\ IF ~IsAuthenticated(sess)
       THEN /\ last' = Served("PUT /data", sess, rid, EmptyBody, 401, <<>>, "none", {})
            /\ UNCHANGED cats
       ELSE IF Throws(fail, 1)
       THEN /\ last' = Served("PUT /data", sess, rid, EmptyBody, 500,
                              <<"cats.findUnique">>, "storage", {})
            /\ UNCHANGED cats
       ELSE IF ById(cats, rid) = {}
       THEN /\ last' = Served("PUT /data", sess, rid, EmptyBody,
                              NotFound(rid),
                              <<"cats.findUnique">>, "none", {})
            /\ UNCHANGED cats
       ELSE LET existing == CHOOSE c \in cats : c.id = rid
                data == RequestBody(body)
            IN  IF DataForbidden(OwnerOf(users, existing), sess)
                THEN /\ last' = Served("PUT /data", sess, rid, EmptyBody, 403,
                                       <<"cats.findUnique">>, "none", {})
                     /\ UNCHANGED cats
                ELSE IF Throws(fail, 2) \/ ~ValidCatData(data)
                THEN /\ last' = Served("PUT /data", sess, rid, EmptyBody, 500,
                                       <<"cats.findUnique", "cats.update">>,
                                       IF Throws(fail, 2) THEN "storage"
                                       ELSE "validation", {})
                     /\ UNCHANGED cats
                ELSE /\ cats' = (cats \ {existing}) \cup {ApplyData(existing, data)}
                     /\ last' = Served("PUT /data", sess, rid, body, 200,
                                       <<"cats.findUnique", "cats.update">>,
                                       "none", {})

\* variant: a removal that throws fails the request
AfterCleanupFails(failed) == IF failed = {} THEN 200 ELSE 500

\* try { await del(url) } catch (blobError) { console.error(...) }: a removal
\* that throws is logged and the handler goes on to its success response
AfterCleanup(failed) == 200

\* del(url) of the asset store: the blob is gone unless the call throws
Del(bs, url, blobFail) == IF url \in blobFail THEN bs ELSE bs \ {url}

\* router.delete('/data/:id')
DeleteData(sess, rid, fail, blobFail) ==
    /\ UNCHANGED <<users, userNext, catNext, products, productNext>>
    /\ IF ~IsAuthenticated(sess)
       THEN /\ last' = Served("DELETE /data", sess, rid, EmptyBody, 401, <<>>,
                              "none", {})
            /\ UNCHANGED <<cats, blobs>>
       ELSE IF Throws(fail, 1)
       THEN /\ last' = Served("DELETE /data", sess, rid, EmptyBody, 500,
                              <<"cats.findUnique">>, "storage", {})
            /\ UNCHANGED <<cats, blobs>>
       ELSE IF ById(cats, rid) = {}
       THEN /\ last' = Served("DELETE /data", sess, rid, EmptyBody,
                              NotFound(rid),
                              <<"cats.findUnique">>, "none", {})
            /\ UNCHANGED <<cats, blobs>>
       ELSE LET cat == CHOOSE c \in cats : c.id = rid
            IN  IF DataForbidden(OwnerOf(users, cat), sess)
                THEN /\ last' = Served("DELETE /data", sess, rid, EmptyBody, 403,
                                       <<"cats.findUnique">>, "none", {})
                     /\ UNCHANGED <<cats, blobs>>
                ELSE IF Throws(fail, 2)
                THEN /\ last' = Served("DELETE /data", sess, rid, EmptyBody, 500,
                                       <<"cats.findUnique", "cats.delete">>,
                                       "storage", {})
                     /\ UNCHANGED <<cats, blobs>>
                ELSE /\ cats' = cats \ {cat}
                     /\ IF Truthy(cat.imageUrl)
                        THEN /\ blobs' = Del(blobs, cat.imageUrl, blobFail)
                             /\ last' = Served("DELETE /data", sess, rid, EmptyBody,
                                   AfterCleanup({cat.imageUrl} \cap blobFail),
                                   <<"cats.findUnique", "cats.delete",
                                     "del " \o cat.imageUrl>>,
                                   "none", {cat.imageUrl} \cap blobFail)
                        ELSE /\ UNCHANGED blobs
                             /\ last' = Served("DELETE /data", sess, rid, EmptyBody,
                                   200, <<"cats.findUnique", "cats.delete">>,
                                   "none", {})

\* router.get('/api/user')
GetUser(sess, fail) ==
    /\ UNCHANGED <<cats, catNext, products, productNext, blobs>>
    /\ IF ~IsAuthenticated(sess)
       THEN /\ last' = Served("GET /api/user", sess, 0, EmptyBody, 200, <<>>,
                              "none", {})
            /\ UNCHANGED <<users, userNext>>
       ELSE IF ~ValidPrincipal(sess)
       THEN /\ last' = Served("GET /api/user", sess, 0, EmptyBody, 500, <<>>,
                              "principal", {})
            /\ UNCHANGED <<users, userNext>>
       ELSE IF Throws(fail, 1)
       THEN /\ last' = Served("GET /api/user", sess, 0, EmptyBody, 500,
                              <<"user.upsert">>, "storage", {})
            /\ UNCHANGED <<users, userNext>>
       ELSE LET e == ensureUser(users, userNext, sess)
            IN  /\ users' = e.users
                /\ userNext' = e.next
                /\ last' = Served("GET /api/user", sess, 0, EmptyBody, 200,
                                  <<"user.upsert">>, "none", {})

----------------------------------------------------------------------------
(* Product endpoints: /api/products *)

\* JSON bodies of POST /api/products and PUT /api/products/:id
ProductBodies ==
    { Pick([id |-> "zzz", ownerId |-> "other", price |-> p,
            images |-> <<"u1", "u2">>], keys \cup inject) :
      p \in {"5", "abc"},
      keys \in SUBSET {"price", "images"},
      inject \in {{}, {"id", "ownerId"}} }

\* parseFloat of a body value: the number a numeric string denotes, NaN for
\* any other string and for undefined
parseFloat(body, k) ==
    IF k \notin DOMAIN body THEN NaN
    ELSE CASE body[k] = "5" -> 5
           [] OTHER -> NaN

\* the data of prisma.product.create in router.post('/api/products'):
\* parseFloat(price) || 0, images: [] (no multipart middleware fills
\* req.files), ownerId.  Of the fields of a product the model keeps price and
\* images; title, description and status are copied like images.
NewProduct(rid, body, uid) ==
    [id |-> rid,
     ownerId |-> uid,
     price |-> IF parseFloat(body, "price") = NaN THEN 0
               ELSE parseFloat(body, "price"),
     images |-> <<>>]

\* variant: ownerId is taken from the body too
UpdateDataWithOwner(body) ==
    [k \in (DOMAIN body \cap {"images", "ownerId"}) \cup {"price"} |->
        IF k = "price" THEN parseFloat(body, "price") ELSE body[k]]

\* the data of prisma.product.update in router.put('/api/products/:id'):
\* { title, description, price: parseFloat(price), status, images }, where a
\* key whose value is undefined is left out by the client
UpdateData(body) ==
    [k \in (DOMAIN body \cap {"images"}) \cup {"price"} |->
        IF k = "price" THEN parseFloat(body, "price") ELSE body[k]]

\* the store accepts the update arguments: price is a required Float, and NaN
\* has no JSON form
ValidProductData(data) == data.price # NaN

\* variant: a session is required
ProductForbiddenNoSession(owner, sess) ==
    \/ ~IsAuthenticated(sess)
    \/ owner # {} /\ \A o \in owner : o.sub # SessionSub(sess)

\* variant: a product without owner is closed to every caller
ProductForbiddenOwnerless(owner, sess) ==
    \/ owner = {}
    \/ IsAuthenticated(sess) /\ \A o \in owner : o.sub # SessionSub(sess)

\* req.oidc?.isAuthenticated() && existing.owner
\*   && existing.owner.sub !== req.oidc.user.sub
ProductForbidden(owner, sess) ==
    /\ IsAuthenticated(sess)
    /\ owner # {}
    /\ \A o \in owner : o.sub # SessionSub(sess)

\* router.post('/api/products')
PostProduct(sess, body, fail) ==
    /\ CanCreate
    /\ UNCHANGED <<cats, catNext, blobs>>
    /\ IF IsAuthenticated(sess) /\ ~ValidPrincipal(sess)
       THEN /\ last' = Served("POST /api/products", sess, 0, EmptyBody, 500,
                              <<>>, "principal", {})
            /\ UNCHANGED <<users, userNext, products, productNext>>
       ELSE IF IsAuthenticated(sess) /\ Throws(fail, 1)
       THEN /\ last' = Served("POST /api/products", sess, 0, EmptyBody, 500,
                              <<"user.upsert">>, "storage", {})
            /\ UNCHANGED <<users, userNext, products, productNext>>
       ELSE LET auth == IsAuthenticated(sess)
                e == IF auth THEN ensureUser(users, userNext, sess)
                     ELSE [users |-> users, user |-> [id |-> NoOwner],
                           next |-> userNext]
                calls == IF auth THEN <<"user.upsert", "product.create">>
                         ELSE <<"product.create">>
            IN  /\ users' = e.users
                /\ userNext' = e.next
                /\ IF Throws(fail, Len(calls))
                   THEN /\ last' = Served("POST /api/products", sess, 0, EmptyBody,
                                          500, calls, "storage", {})
                        /\ UNCHANGED <<products, productNext>>
                   ELSE /\ products' = products \cup
                              {NewProduct(productNext, body, e.user.id)}
                        /\ productNext' = productNext + 1
                        /\ last' = Served("POST /api/products", sess,
                                          productNext, body, 201, calls,
                                          "none", {})

\* router.put('/api/products/:id')
PutProduct(sess, rid, body, fail) ==
    /\ UNCHANGED <<users, userNext, cats, catNext, productNext, blobs>>
    /\ IF Throws(fail, 1)
       THEN /\ last' = Served("PUT /api/products", sess, rid, EmptyBody, 500,
                              <<"product.findUnique">>, "storage", {})
            /\ UNCHANGED products
       ELSE IF ById(products, rid) = {}
       THEN /\ last' = Served("PUT /api/products", sess, rid, EmptyBody,
                              NotFound(rid),
                              <<"product.findUnique">>, "none", {})
            /\ UNCHANGED products
       ELSE LET existing == CHOOSE r \in products : r.id = rid
                data == UpdateData(body)
            IN  IF ProductForbidden(OwnerOf(users, existing), sess)
                THEN /\ last' = Served("PUT /api/products", sess, rid,
                                       EmptyBody, 403,
                                       <<"product.findUnique">>, "none", {})
                     /\ UNCHANGED products
                ELSE IF Throws(fail, 2) \/ ~ValidProductData(data)
                THEN /\ last' = Served("PUT /api/products", sess, rid, EmptyBody,
                                       500,
                                       <<"product.findUnique", "product.update">>,
                                       IF Throws(fail, 2) THEN "storage"
                                       ELSE "validation", {})
                     /\ UNCHANGED products
                ELSE /\ products' = (products \ {existing})
                                       \cup {ApplyData(existing, data)}
                     /\ last' = Served("PUT /api/products", sess, rid, body,
                                       200,
                                       <<"product.findUnique", "product.update">>,
                                       "none", {})

\* variant: the loop ends at the first removal that throws
RECURSIVE DelAllUntilFailure(_, _, _)
DelAllUntilFailure(bs, images, blobFail) ==
    IF images = <<>> \/ Head(images) \in blobFail THEN bs
    ELSE DelAllUntilFailure(bs \ {Head(images)}, Tail(images), blobFail)

\* for (const imageUrl of product.images) { try { await del(imageUrl) } ... }:
\* the blobs that remain
RECURSIVE DelAll(_, _, _)
DelAll(bs, images, blobFail) ==
    IF images = <<>> THEN bs
    ELSE DelAll(Del(bs, Head(images), blobFail), Tail(images), blobFail)

\* the del calls of the loop, in order
DelCalls(images) == [i \in 1..Len(images) |-> "del " \o images[i]]

\* router.delete('/api/products/:id')
DeleteProduct(sess, rid, fail, blobFail) ==
    /\ UNCHANGED <<users, userNext, cats, catNext, productNext>>
    /\ IF Throws(fail, 1)
       THEN /\ last' = Served("DELETE /api/products", sess, rid, EmptyBody, 500,
                              <<"product.findUnique">>, "storage", {})
            /\ UNCHANGED <<products, blobs>>
       ELSE IF ById(products, rid) = {}
       THEN /\ last' = Served("DELETE /api/products", sess, rid, EmptyBody,
                              NotFound(rid),
                              <<"product.findUnique">>, "none", {})
            /\ UNCHANGED <<products, blobs>>
       ELSE LET product == CHOOSE r \in products : r.id = rid
                calls == <<"product.findUnique">> \o DelCalls(product.images)
                             \o <<"product.delete">>
                failed == {product.images[i] : i \in 1..Len(product.images)}
                              \cap blobFail
            IN  IF ProductForbidden(OwnerOf(users, product), sess)
                THEN /\ last' = Served("DELETE /api/products", sess, rid,
                                       EmptyBody, 403,
                                       <<"product.findUnique">>, "none", {})
                     /\ UNCHANGED <<products, blobs>>
                ELSE /\ blobs' = DelAll(blobs, product.images, blobFail)
                     /\ IF Throws(fail, 2)
                        THEN /\ last' = Served("DELETE /api/products", sess, rid,
                                               EmptyBody, 500, calls, "storage",
                                               failed)
                             /\ UNCHANGED products
                        ELSE /\ products' = products \ {product}
                             /\ last' = Served("DELETE /api/products", sess, rid,
                                               EmptyBody, AfterCleanup(failed),
                                               calls, "none", failed)

----------------------------------------------------------------------------
(* Specification *)

\* err.message of what a handler's try block caught
ErrorText(fault) ==
    CASE fault = "storage" -> "Can't reach database server"
      [] fault = "validation" -> "Invalid prisma invocation"
      [] fault = "principal" -> "Cannot ensure user without a valid Auth0 sub"
      [] OTHER -> "Unique constraint failed"

\* the first argument of the handler's console.error and the error member of
\* its 500 response
Reason(op) ==
    CASE op = "GET /api/user" -> "Failed to fetch user"
      [] op = "POST /data" -> "Failed to create record"
      [] op = "PUT /data" -> "Failed to update record"
      [] op = "DELETE /data" -> "Failed to delete record"
      [] op = "POST /api/products" -> "Failed to create product"
      [] op = "PUT /api/products" -> "Failed to update product"
      [] op = "DELETE /api/products" -> "Failed to delete product"
      [] OTHER -> "Failed to fetch records"

\* the body of the response to the request recorded in l, for the responses
\* that report a failure: { error } for 401, 403 and 404, and
\* { error, details: err.message || err } from the catch block.  The body of
\* a 2xx response is the record or listing and is not repeated here.
Payload(l) ==
    CASE l.status = 500 -> [error |-> Reason(l.op), details |-> ErrorText(l.fault)]
      [] l.status = 401 -> [error |-> "Authentication required"]
      [] l.status = 403 -> [error |-> "Forbidden"]
      [] l.status = 404 ->
            [error |-> IF l.op \in {"PUT /api/products", "DELETE /api/products"}
                       THEN "Product not found" ELSE "Record not found"]
      [] OTHER -> <<>>

\* no cat page open in a browser
NoPage == [phase |-> "none"]

\* no payload recorded, no call of ensureUser under way, no page open
Quiet ==
    /\ sent = <<>>
    /\ inflight = <<>>
    /\ cart = <<>>
    /\ localStorage = <<>>
    /\ page = NoPage

\* a cat stored before owners were recorded: it has no owner
LegacyCat == [id |-> 1, ownerId |-> NoOwner, name |-> "n1", imageUrl |-> "u1"]

Init ==
    /\ users = {}
    /\ userNext = 1
    /\ \/ cats = {} /\ catNext = 1
       \/ cats = {LegacyCat} /\ catNext = 2
    /\ products = {}
    /\ productNext = 1
    /\ blobs = Urls
    /\ last = Served("none", NoSession, 0, EmptyBody, 0, <<>>, "none", {})
    /\ Quiet

\* identifiers a request may name: every one the store can have generated
Ids == 1..MaxRecords

\* requests with a body: any session, target and body while the store is
\* reachable (fail = 0); a store that throws at its first or second call is
\* tried with every session and target and one body
BodyRequests(ids, bodies, faultBody) ==
    [sess : Sessions, id : ids, body : bodies, fail : {0}]
        \cup [sess : Sessions, id : ids, body : {faultBody}, fail : 1..2]

\* the bodies sent to a store that throws
CatFaultBody == [name |-> "n2"]
ProductFaultBody == [price |-> "5"]

\* delete requests: any session, target and set of failing asset removals
\* while the store is reachable; a store that throws is tried with an asset
\* store that works
DeleteRequests ==
    [sess : Sessions, id : Ids, fail : {0}, blobFail : SUBSET Urls]
        \cup [sess : Sessions, id : Ids, fail : 1..2, blobFail : {{}}]

\* res.send / res.json of the handler that just ran; nothing else is under way
Respond ==
    /\ sent' = Payload(last')
    /\ UNCHANGED <<inflight, cart, localStorage, page>>

Next ==
    \/ \E s \in Sessions, f \in 0..1 : GetUser(s, f) /\ Respond
    \/ \E r \in BodyRequests({0}, CatBodies, CatFaultBody) :
          PostData(r.sess, r.body, r.fail) /\ Respond
    \/ \E r \in BodyRequests(Ids, CatBodies, CatFaultBody) :
          PutData(r.sess, r.id, r.body, r.fail) /\ Respond
    \/ \E r \in DeleteRequests :
          DeleteData(r.sess, r.id, r.fail, r.blobFail) /\ Respond
    \/ \E r \in BodyRequests({0}, ProductBodies, ProductFaultBody) :
          PostProduct(r.sess, r.body, r.fail) /\ Respond
    \/ \E r \in BodyRequests(Ids, ProductBodies, ProductFaultBody) :
          PutProduct(r.sess, r.id, r.body, r.fail) /\ Respond
    \/ \E r \in DeleteRequests :
          DeleteProduct(r.sess, r.id, r.fail, r.blobFail) /\ Respond

Spec == Init /\ [][Next]_vars

----------------------------------------------------------------------------
(* Identity Resolver under concurrent requests *)

\* calls of ensureUser a run makes, concurrent or one after the other
MaxCalls == 3

Calls == 1..MaxCalls

\* principals the provider supplies for this part: s1 signs in twice with
\* different profile data (the second time without email, with a picture)
ProfilePrincipals ==
    { [sub |-> "s1", name |-> "Ann", email |-> "ann@x"],
      [sub |-> "s1", name |-> "Anna", picture |-> "pic1"],
      [sub |-> "s2", name |-> "Bob", email |-> "", picture |-> "pic2"] }

\* what ensureUser may be called with besides: no principal at all
\* (undefined), and a principal whose sub is absent or empty
InvalidPrincipals ==
    { NoSession, [name |-> "Eve"], [sub |-> "", name |-> "Eve"] }

\* a call that was not made yet
NotCalled == [at |-> "idle"]

\* the store's unique index on User.sub: a create for a sub that is stored is
\* refused (Prisma P2002)
UniqueSubRefuses(us, p) == \E u \in us : u.sub = p.sub

\* GET /api/user with a session, up to the point where ensureUser awaits
\* prisma.user.upsert
CallEnsureUser(i, p) ==
    /\ inflight[i] = NotCalled
    /\ ValidPrincipal(p)
    /\ inflight' = [inflight EXCEPT ![i] = [at |-> "upsert", p |-> p]]
    /\ UNCHANGED <<server, sent, cart, localStorage, page>>

\* a call whose principal does not pass the guard: ensureUser throws before
\* it reaches the store, and the handler's catch answers 500
CallEnsureUserThrows(i, p) ==
    /\ inflight[i] = NotCalled
    /\ ~ValidPrincipal(p)
    /\ inflight' = [inflight EXCEPT ![i] = [at |-> "thrown", p |-> p]]
    /\ last' = Served("GET /api/user", p, i, EmptyBody, 500, <<>>,
                      "principal", {})
    /\ sent' = Payload(last')
    /\ UNCHANGED <<users, userNext, cats, catNext, products, productNext,
                   blobs, cart, localStorage, page>>

\* the first half of the upsert: the store looks the sub up.  Prisma's
\* MongoDB connector has no native upsert; the query engine reads and then
\* creates or updates.
UpsertRead(i) ==
    /\ inflight[i].at = "upsert"
    /\ inflight' = [inflight EXCEPT ![i] =
                       [at |-> "checked", p |-> inflight[i].p,
                        found |-> \E u \in users : u.sub = inflight[i].p.sub]]
    /\ UNCHANGED <<server, sent, cart, localStorage, page>>

\* the second half of the upsert and the rest of the handler: update when the
\* read found the identity, create when it did not; a refused create throws
\* and the handler's catch answers 500
UpsertWrite(i) ==
    /\ inflight[i].at = "checked"
    /\ UNCHANGED <<cats, catNext, products, productNext, blobs, sent, cart,
                   localStorage, page>>
    /\ LET p == inflight[i].p
           found == inflight[i].found
       IN  IF ~found /\ UniqueSubRefuses(users, p)
           THEN /\ inflight' = [inflight EXCEPT ![i] =
                                   [at |-> "done", p |-> p, wrote |-> "nothing"]]
                /\ last' = Served("GET /api/user", p, i, EmptyBody, 500,
                                  <<"user.upsert">>, "conflict", {})
                /\ UNCHANGED <<users, userNext>>
           ELSE LET e == ensureUser(users, userNext, p)
                IN  /\ users' = e.users
                    /\ userNext' = e.next
                    /\ inflight' = [inflight EXCEPT ![i] =
                                       [at |-> "done", p |-> p,
                                        wrote |-> IF found THEN "update"
                                                  ELSE "create"]]
                    /\ last' = Served("GET /api/user", p, i, EmptyBody, 200,
                                      <<"user.upsert">>, "none", {})

InitIdentity ==
    /\ users = {}
    /\ userNext = 1
    /\ cats = {}
    /\ catNext = 1
    /\ products = {}
    /\ productNext = 1
    /\ blobs = Urls
    /\ last = Served("none", NoSession, 0, EmptyBody, 0, <<>>, "none", {})
    /\ sent = <<>>
    /\ inflight = [i \in Calls |-> NotCalled]
    /\ cart = <<>>
    /\ localStorage = <<>>
    /\ page = NoPage

NextIdentity ==
    \/ \E i \in Calls, p \in ProfilePrincipals \cup InvalidPrincipals :
          CallEnsureUser(i, p)
    \/ \E i \in Calls, p \in ProfilePrincipals \cup InvalidPrincipals :
          CallEnsureUserThrows(i, p)
    \/ \E i \in Calls : UpsertRead(i)
    \/ \E i \in Calls : UpsertWrite(i)

SpecIdentity == InitIdentity /\ [][NextIdentity]_vars

----------------------------------------------------------------------------
(* Listing: GET /data *)

\* take: 100 of the findMany in router.get('/data')
Take == 100

\* the largest number of cats the store holds when it is listed
MaxStored == 101

\* the identities stored once both principals have signed in
BothUsers ==
    { [id |-> "U1", sub |-> "s1", email |-> "ann@x", name |-> "Ann",
       picture |-> NullS],
      [id |-> "U2", sub |-> "s2", email |-> NullS, name |-> "Bob",
       picture |-> "pic2"] }

\* a store of n cats: the first one without owner, the others created in
\* turn by the two identities
Stock(n) ==
    { [id |-> i,
       ownerId |-> IF i = 1 THEN NoOwner ELSE IF i % 2 = 0 THEN "U1" ELSE "U2",
       name |-> "n1", imageUrl |-> NullS] : i \in 1..n }

\* include: { owner: true }: the record with its owner relation, null when
\* the record has none
IncludeOwner(us, rec) ==
    [id |-> rec.id, ownerId |-> rec.ownerId, name |-> rec.name,
     imageUrl |-> rec.imageUrl,
     owner |-> IF OwnerOf(us, rec) = {} THEN [id |-> NullS]
               ELSE CHOOSE u \in OwnerOf(us, rec) : TRUE]

\* findMany({ take, include: { owner: true } }): the first `take` records in
\* the order of the store, which is the order of creation
findMany(coll, us, take) ==
    { IncludeOwner(us, c) :
        c \in {d \in coll : Cardinality({e \in coll : e.id <= d.id}) <= take} }

\* router.get('/data')
GetData(sess, fail) ==
    /\ UNCHANGED <<users, userNext, cats, catNext, products, productNext, blobs,
                   inflight, cart, localStorage>>
    /\ IF Throws(fail, 1)
       THEN /\ last' = Served("GET /data", sess, 0, EmptyBody, 500,
                              <<"cats.findMany">>, "storage", {})
            /\ sent' = Payload(last')
       ELSE /\ last' = Served("GET /data", sess, 0, EmptyBody, 200,
                              <<"cats.findMany">>, "none", {})
            /\ sent' = findMany(cats, users, Take)

InitListing ==
    /\ users = BothUsers
    /\ userNext = 3
    /\ \E n \in 0..MaxStored : cats = Stock(n) /\ catNext = n + 1
    /\ products = {}
    /\ productNext = 1
    /\ blobs = Urls
    /\ last = Served("none", NoSession, 0, EmptyBody, 0, <<>>, "none", {})
    /\ Quiet

NextListing ==
    \E s \in Sessions, f \in 0..1 : GetData(s, f) /\ UNCHANGED page

SpecListing == InitListing /\ [][NextListing]_vars

----------------------------------------------------------------------------
(* Upload: POST /api/upload *)

\* const MAX_FILE_SIZE = 10 * 1024 * 1024
MAX_FILE_SIZE == 10 * 1024 * 1024

\* variant: GIF images are let through as well
AllowedTypesAndGif ==
    {"image/jpeg", "image/png", "image/webp", "image/svg+xml", "image/gif"}

\* const ALLOWED_TYPES = [...]
ALLOWED_TYPES == {"image/jpeg", "image/png", "image/webp", "image/svg+xml"}

\* the MIME types busboy reports for the files of the requests
MimeTypes == ALLOWED_TYPES \cup {"image/gif", "application/pdf"}

\* the files of the requests, as the lengths of the chunks their stream
\* delivers: empty, small, exactly the limit, and over it in several ways
ChunkLists ==
    { <<>>, <<1>>, <<MAX_FILE_SIZE>>, <<MAX_FILE_SIZE - 1, 1>>,
      <<MAX_FILE_SIZE + 1>>, <<MAX_FILE_SIZE, 1>>, <<MAX_FILE_SIZE - 1, 2, 1>>,
      <<1, MAX_FILE_SIZE, 1>> }

\* the length of a file
RECURSIVE FileSize(_)
FileSize(chunks) ==
    IF chunks = <<>> THEN 0 ELSE Head(chunks) + FileSize(Tail(chunks))

\* file.on('data'): fileSize += chunk.length; over the limit the flag is set
\* and the stream destroyed, so that no further chunk arrives.  Result:
\* whether sizeLimitExceeded is set once the stream is through.
RECURSIVE Exceeded(_, _)
Exceeded(chunks, fileSize) ==
    IF chunks = <<>> THEN FALSE
    ELSE IF fileSize + Head(chunks) > MAX_FILE_SIZE THEN TRUE
    ELSE Exceeded(Tail(chunks), fileSize + Head(chunks))

\* the number of blobs put() may add in a run
MaxUploads == 2

\* the locators put() gives to the blobs it stores, in order
UploadUrls == <<"b1", "b2", "b3", "b4">>

\* the blobs stored by put() so far
Uploaded == blobs \ Urls

\* what `last` holds of an upload: the file's type and length as body
Uploading(sess, mime, chunks, status, calls, fault) ==
    Served("POST /api/upload", sess, 0,
           [mime |-> mime, size |-> FileSize(chunks)], status, calls, fault, {})

\* router.post('/upload') with one file part.  ends: the destroyed stream of
\* a file over the limit still emits 'end' (when it does not, the request is
\* left without response, status 0); sharpFails, putFails: the resize or the
\* blob store throws.
Upload(sess, mime, chunks, ends, sharpFails, putFails) ==
    /\ Cardinality(Uploaded) < MaxUploads
    /\ UNCHANGED <<users, userNext, cats, catNext, products, productNext,
                   sent, inflight, cart, localStorage, page>>
    /\ IF ~IsAuthenticated(sess)
       THEN /\ last' = Uploading(sess, mime, chunks, 401, <<>>, "none")
            /\ UNCHANGED blobs
       ELSE IF mime \notin ALLOWED_TYPES
       THEN /\ last' = Uploading(sess, mime, chunks, 400, <<>>, "none")
            /\ UNCHANGED blobs
       ELSE IF Exceeded(chunks, 0)
       THEN /\ last' = Uploading(sess, mime, chunks, IF ends THEN 400 ELSE 0,
                                 <<>>, "none")
            /\ UNCHANGED blobs
       ELSE IF mime # "image/svg+xml" /\ sharpFails
       THEN /\ last' = Uploading(sess, mime, chunks, 500, <<"sharp">>, "sharp")
            /\ UNCHANGED blobs
       ELSE LET calls == IF mime = "image/svg+xml" THEN <<"put">>
                         ELSE <<"sharp", "put">>
            IN  IF putFails
                THEN /\ last' = Uploading(sess, mime, chunks, 500, calls, "storage")
                     /\ UNCHANGED blobs
                ELSE /\ last' = Uploading(sess, mime, chunks, 200, calls, "none")
                     /\ blobs' = blobs \cup
                                   {UploadUrls[Cardinality(Uploaded) + 1]}

InitUpload ==
    /\ users = {}
    /\ userNext = 1
    /\ cats = {}
    /\ catNext = 1
    /\ products = {}
    /\ productNext = 1
    /\ blobs = Urls
    /\ last = Served("none", NoSession, 0, EmptyBody, 0, <<>>, "none", {})
    /\ Quiet

NextUpload ==
    \E s \in Sessions, m \in MimeTypes, c \in ChunkLists,
       ends \in BOOLEAN, sharpFails \in BOOLEAN, putFails \in BOOLEAN :
        Upload(s, m, c, ends, sharpFails, putFails)

SpecUpload == InitUpload /\ [][NextUpload]_vars

----------------------------------------------------------------------------
(* Upload: the parts of a multipart body *)

\* file parts a multipart body holds at most
MaxParts == 2

\* the file parts busboy may report: an image that passes, one of a type
\* that is not allowed, and one over the size limit
PartKinds ==
    { [mime |-> "image/png", chunks |-> <<1>>],
      [mime |-> "image/gif", chunks |-> <<1>>],
      [mime |-> "image/png", chunks |-> <<MAX_FILE_SIZE, 1>>] }

\* the multipart bodies: no file part, one, or several
RECURSIVE Bodies(_)
Bodies(n) ==
    IF n = 0 THEN {<<>>}
    ELSE Bodies(n - 1) \cup
           {Append(b, p) : b \in {c \in Bodies(n - 1) : Len(c) = n - 1},
                           p \in PartKinds}

\* what the listener of uploadProcessor.on('file') answers for one part: the
\* statuses of its res.json calls.  A part of a type that is not allowed is
\* answered 400 at once; the others are answered from file.on('end'), which
\* a destroyed stream may not emit.
PartAnswer(part, ends, fails) ==
    IF part.mime \notin ALLOWED_TYPES THEN <<400>>
    ELSE IF Exceeded(part.chunks, 0) THEN (IF ends THEN <<400>> ELSE <<>>)
    ELSE IF fails THEN <<500>>
    ELSE <<200>>

\* the res.json calls of the listeners of all parts, in the order of the parts
RECURSIVE Answers(_, _, _)
Answers(parts, ends, fails) ==
    IF parts = <<>> THEN <<>>
    ELSE PartAnswer(Head(parts), ends, fails) \o Answers(Tail(parts), ends, fails)

\* router.post('/upload') for a multipart body: without session one 401;
\* with one, busboy emits 'file' once per file part and nothing else of the
\* handler answers.  sent holds the statuses of the res.json calls made for
\* the request; every 200 has stored a blob.
UploadParts(sess, parts, ends, fails) ==
    LET answers == IF IsAuthenticated(sess) THEN Answers(parts, ends, fails)
                   ELSE <<401>>
        stored == Cardinality({k \in DOMAIN answers : answers[k] = 200})
        n == Cardinality(Uploaded)
    IN  /\ n + stored <= Len(UploadUrls)
        /\ UNCHANGED <<users, userNext, cats, catNext, products, productNext,
                       inflight, cart, localStorage, page>>
        /\ sent' = answers
        /\ blobs' = blobs \cup {UploadUrls[k] : k \in (n + 1)..(n + stored)}
        /\ last' = Served("POST /api/upload", sess, 0, [parts |-> parts],
                          IF answers = <<>> THEN 0 ELSE answers[1],
                          [k \in 1..stored |-> "put"],
                          IF 500 \in {answers[k] : k \in DOMAIN answers}
                          THEN "storage" ELSE "none", {})

InitMultipart ==
    /\ users = {}
    /\ userNext = 1
    /\ cats = {}
    /\ catNext = 1
    /\ products = {}
    /\ productNext = 1
    /\ blobs = Urls
    /\ last = Served("none", NoSession, 0, EmptyBody, 0, <<>>, "none", {})
    /\ Quiet

NextMultipart ==
    \E s \in Sessions, parts \in Bodies(MaxParts), ends \in BOOLEAN,
       fails \in BOOLEAN : UploadParts(s, parts, ends, fails)

SpecMultipart == InitMultipart /\ [][NextMultipart]_vars

----------------------------------------------------------------------------
(* Shop page: the cart of revamp-script.js *)

\* items a cart holds at most in a run
MaxItems == 2

\* the largest quantity a run reaches
MaxQuantity == 2

\* JavaScript null in a number-valued property
NullN == -2

\* JavaScript undefined in a string-valued property
Undefined == "undefined"

\* the products the catalogue may hold: one with an image, one without
\* (product.images empty and no product.image)
Catalogue == {[id |-> "p1", image |-> "u1"], [id |-> "p2", image |-> Undefined]}

\* the option lists a product page passes to addToCart
OptionLists == {<<>>, <<"red">>, <<"red", "large">>}

\* the strings that occur in a cart
CartStrings == {"p1", "p2", "u1", "red", "large"}

\* JSON.stringify of a string
Quote(str) == "\"" \o str \o "\""

\* JSON.parse of a string token
Unquote(tok) == CHOOSE str \in CartStrings : Quote(str) = tok

\* JSON.stringify of a number: NaN is written as null
NumberToken(n) == IF n \in {NaN, NullN} THEN "null" ELSE ToString(n)

\* JSON.parse of a number token or null
ParseNumber(tok) ==
    IF tok = "null" THEN NullN
    ELSE CHOOSE n \in 0..(MaxQuantity + 1) : ToString(n) = tok

\* JSON.stringify of a cart item: a property whose value is undefined is
\* left out
StringifyItem(item) ==
    [k \in {"productId", "quantity", "options"}
           \cup (IF item.image = Undefined THEN {} ELSE {"image"}) |->
        CASE k = "quantity" -> <<NumberToken(item.quantity)>>
          [] k = "options" ->
                [i \in 1..Len(item.options) |-> Quote(item.options[i])]
          [] OTHER -> <<Quote(item[k])>>]

\* JSON.parse of a cart item: reading a property that is not there gives
\* undefined
ParseItem(obj) ==
    [productId |-> Unquote(obj.productId[1]),
     quantity |-> ParseNumber(obj.quantity[1]),
     image |-> IF "image" \in DOMAIN obj THEN Unquote(obj.image[1])
               ELSE Undefined,
     options |-> [i \in 1..Len(obj.options) |-> Unquote(obj.options[i])]]

\* JSON.stringify(cart): the document, one object per item
JSONstringify(c) == [i \in 1..Len(c) |-> StringifyItem(c[i])]

\* JSON.parse of such a document
JSONparse(doc) == [i \in 1..Len(doc) |-> ParseItem(doc[i])]

\* localStorage.getItem('revamp_cart') || '[]'
StoredCart(ls) ==
    IF "revamp_cart" \in DOMAIN ls THEN ls["revamp_cart"] ELSE <<>>

\* saveCart(): localStorage.setItem('revamp_cart', JSON.stringify(cart))
saveCart(c) == [revamp_cart |-> JSONstringify(c)]

\* cart.find(...): the index of the first item that satisfies the test, 0
\* when there is none; hits holds the indices whose item satisfies it
FindIndex(c, hits) ==
    IF hits \cap (1..Len(c)) # {}
    THEN CHOOSE i \in hits : \A j \in hits : i <= j
    ELSE 0

\* existingItem.quantity += 1
PlusOne(q) == IF q = NaN THEN NaN ELSE IF q = NullN THEN 1 ELSE q + 1

\* variant: the quantity is taken as it is
AsPassed(q) == q

\* Math.max(0, quantity)
MathMax0(q) == IF q = NaN THEN NaN ELSE IF q < 0 THEN 0 ELSE q

\* cart.filter(item => item.productId !== productId)
Without(c, productId) == SelectSeq(c, LAMBDA item : item.productId # productId)

\* the parts of the state the page does not touch
PageFrame == UNCHANGED <<server, sent, inflight, page>>

\* addToCart(productId, selectedOptions), from the answer of getProducts on:
\* found is the catalogue's products with this id
addToCart(productId, selectedOptions, found) ==
    /\ PageFrame
    /\ IF found = {}
       THEN UNCHANGED <<cart, localStorage>>
       ELSE LET product == CHOOSE q \in found : TRUE
                Same(item) == /\ item.productId = productId
                              /\ item.options = selectedOptions
                at == FindIndex(cart, {i \in 1..Len(cart) : Same(cart[i])})
            IN  /\ IF at # 0
                   THEN /\ PlusOne(cart[at].quantity) <= MaxQuantity
                        /\ cart' = [cart EXCEPT
                                      ![at].quantity = PlusOne(cart[at].quantity)]
                   ELSE /\ Len(cart) < MaxItems
                        /\ cart' = Append(cart,
                                      [productId |-> productId, quantity |-> 1,
                                       image |-> product.image,
                                       options |-> selectedOptions])
                /\ localStorage' = saveCart(cart')

\* removeFromCart(productId)
removeFromCart(productId) ==
    /\ PageFrame
    /\ cart' = Without(cart, productId)
    /\ localStorage' = saveCart(cart')

\* updateQuantity(productId, quantity)
updateQuantity(productId, quantity) ==
    /\ PageFrame
    /\ LET Has(item) == item.productId = productId
           at == FindIndex(cart, {i \in 1..Len(cart) : Has(cart[i])})
       IN  IF at = 0
           THEN UNCHANGED <<cart, localStorage>>
           ELSE IF MathMax0(quantity) = 0
           THEN /\ cart' = Without(cart, productId)
                /\ localStorage' = saveCart(cart')
           ELSE /\ cart' = [cart EXCEPT ![at].quantity = MathMax0(quantity)]
                /\ localStorage' = saveCart(cart')

\* a page load: let cart = JSON.parse(localStorage.getItem('revamp_cart') || '[]')
LoadPage ==
    /\ PageFrame
    /\ cart' = JSONparse(StoredCart(localStorage))
    /\ UNCHANGED localStorage

\* the quantities the page passes to updateQuantity: item.quantity - 1,
\* item.quantity + 1, and parseInt of what was typed into the number field
Quantities == {NaN, -3} \cup 0..MaxQuantity

\* the first load of the page in a browser that stored no cart
InitCart ==
    /\ users = {}
    /\ userNext = 1
    /\ cats = {}
    /\ catNext = 1
    /\ products = {}
    /\ productNext = 1
    /\ blobs = Urls
    /\ last = Served("none", NoSession, 0, EmptyBody, 0, <<>>, "none", {})
    /\ Quiet

NextCart ==
    \/ \E productId \in {"p1", "p2"}, o \in OptionLists, catalogue \in SUBSET Catalogue :
          addToCart(productId, o, {q \in catalogue : q.id = productId})
    \/ \E productId \in {"p1", "p2"} : removeFromCart(productId)
    \/ \E productId \in {"p1", "p2"}, q \in Quantities : updateQuantity(productId, q)
    \/ LoadPage

SpecCart == InitCart /\ [][NextCart]_vars

\* the whole numbers among them: what the - and + buttons pass, and what
\* parseInt makes of a number that was typed
IntegerQuantities == Quantities \ {NaN}

\* the product ids a page may pass: those of the catalogue and one that
\* GET /api/products never returns
ProductIds == {"p1", "p2", "p3"}

\* the cart operations called with whole quantities only, and reloads of
\* the page; getProducts answers with any part of the catalogue ([] when
\* the request fails)
NextCartIntegers ==
    \/ \E productId \in ProductIds, o \in OptionLists, catalogue \in SUBSET Catalogue :
          addToCart(productId, o, {q \in catalogue : q.id = productId})
    \/ \E productId \in ProductIds : removeFromCart(productId)
    \/ \E productId \in ProductIds, q \in IntegerQuantities :
          updateQuantity(productId, q)
    \/ LoadPage

SpecCartIntegers == InitCart /\ [][NextCartIntegers]_vars

----------------------------------------------------------------------------
(* The gate of /data/:id over stores with several identities *)

\* a second identity stored for Ann's sub, as a store without the unique
\* index on sub could hold it
Twin == [id |-> "U3", sub |-> "s1", email |-> "ann@x", name |-> "Ann",
         picture |-> NullS]

\* cats of Ann's first identity, of her second one (of an identity that is
\* not stored, when the twin is not), of Bob, and of nobody
GateCats ==
    { [id |-> 1, ownerId |-> "U1", name |-> "n1", imageUrl |-> NullS],
      [id |-> 2, ownerId |-> "U3", name |-> "n1", imageUrl |-> "u1"],
      [id |-> 3, ownerId |-> "U2", name |-> "n1", imageUrl |-> NullS],
      [id |-> 4, ownerId |-> NoOwner, name |-> "n1", imageUrl |-> NullS] }

InitGate ==
    /\ users \in {BothUsers, BothUsers \cup {Twin}}
    /\ userNext = 3
    /\ cats = GateCats
    /\ catNext = 5
    /\ products = {}
    /\ productNext = 1
    /\ blobs = Urls
    /\ last = Served("none", NoSession, 0, EmptyBody, 0, <<>>, "none", {})
    /\ Quiet

NextGate ==
    \/ \E s \in Sessions, c \in GateCats, f \in 0..2 :
          PutData(s, c.id, CatFaultBody, f) /\ Respond
    \/ \E s \in Sessions, c \in GateCats, f \in 0..2 :
          DeleteData(s, c.id, f, {}) /\ Respond

SpecGate == InitGate /\ [][NextGate]_vars

----------------------------------------------------------------------------
(* The cat page: currentUser, the rendered cards and their buttons *)

\* let currentUser = { isAuthenticated: false, ..., sub: null }
DefaultUser == [isAuthenticated |-> FALSE, sub |-> NullS]

\* the body of the 200 response of router.get('/api/user'):
\* { ...req.oidc.user, id: user.id, isAuthenticated: true } with a session,
\* { name: 'Guest', isAuthenticated: false } without
UserData(sess, us) ==
    IF IsAuthenticated(sess)
    THEN [id |-> (CHOOSE u \in us : u.sub = sess.sub).id,
          isAuthenticated |-> TRUE] @@ sess
    ELSE [name |-> "Guest", isAuthenticated |-> FALSE]

\* loadUser: currentUser = { isAuthenticated: !!data.isAuthenticated,
\* sub: data.sub || null, ... }
CurrentUserOf(data) ==
    [isAuthenticated |-> ("isAuthenticated" \in DOMAIN data /\ data.isAuthenticated),
     sub |-> OrNull(data, "sub")]

\* variant: buttons on every item that has an owner
isOwnerOfAnyOwned(item, currentUser) ==
    /\ currentUser.isAuthenticated
    /\ "sub" \in DOMAIN item.owner

\* isOwner(item): currentUser.isAuthenticated && item.owner && item.owner.sub
\*                && item.owner.sub === currentUser.sub
isOwner(item, currentUser) ==
    /\ currentUser.isAuthenticated
    /\ "sub" \in DOMAIN item.owner
    /\ Truthy(item.owner.sub)
    /\ item.owner.sub = currentUser.sub

\* init(), first half: the page is loaded and loadUser fetches /api/user.
\* When the response is not ok, loadUser throws and currentUser keeps its
\* initial value.
loadUser(fail) ==
    /\ page # NoPage
    /\ GetUser(page.session, fail)
    /\ sent' = IF last'.status = 200 THEN UserData(page.session, users')
               ELSE Payload(last')
    /\ page' = [page EXCEPT
                  !.phase = "user",
                  !.loaded = (last'.status = 200),
                  !.currentUser = IF last'.status = 200 THEN CurrentUserOf(sent')
                                  ELSE DefaultUser,
                  !.cards = {}]
    /\ UNCHANGED <<inflight, cart, localStorage>>

\* init(), second half: getData fetches /data and renders one card per item,
\* with Edit and Delete buttons when isOwner(item)
getData(fail) ==
    /\ page # NoPage
    /\ page.phase = "user"
    /\ GetData(page.session, fail)
    /\ page' = [page EXCEPT
                  !.phase = "listed",
                  !.cards = IF last'.status = 200
                            THEN {[id |-> item.id,
                                   buttons |-> isOwner(item, page.currentUser)] :
                                    item \in sent'}
                            ELSE {}]

\* the browser's session sends a PUT or DELETE for a cat, from the buttons of
\* a card or otherwise
PageRequest(rid, fail) ==
    /\ page # NoPage
    /\ \/ PutData(page.session, rid, CatFaultBody, fail)
       \/ DeleteData(page.session, rid, fail, {})
    /\ Respond

InitPage ==
    /\ users = BothUsers
    /\ userNext = 3
    /\ cats = GateCats
    /\ catNext = 5
    /\ products = {}
    /\ productNext = 1
    /\ blobs = Urls
    /\ last = Served("none", NoSession, 0, EmptyBody, 0, <<>>, "none", {})
    /\ sent = <<>>
    /\ inflight = <<>>
    /\ cart = <<>>
    /\ localStorage = <<>>
    /\ \E s \in Sessions :
          page = [phase |-> "opened", session |-> s, loaded |-> FALSE,
                  currentUser |-> DefaultUser, cards |-> {}]

NextPage ==
    \/ \E f \in 0..1 : loadUser(f)
    \/ \E f \in 0..1 : getData(f)
    \/ \E c \in GateCats, f \in 0..2 : PageRequest(c.id, f)

SpecPage == InitPage /\ [][NextPage]_vars

----------------------------------------------------------------------------
(* PUT and DELETE step by step: requests under way at once *)

\* requests a run makes, concurrent or one after the other
MaxRequests == 2

Requests == 1..MaxRequests

WriteOps == {"PUT /data", "DELETE /data", "PUT /api/products",
             "DELETE /api/products"}

\* the records the requests are about: a cat and a product of Ann (U1)
AnnsCat == [id |-> 1, ownerId |-> "U1", name |-> "n1", imageUrl |-> "u1"]
AnnsProduct == [id |-> 1, ownerId |-> "U1", price |-> 3, images |-> <<"u1", "u2">>]
\* and a cat of Bob (U2) that no request is about
BobsCat == [id |-> 2, ownerId |-> "U2", name |-> "n1", imageUrl |-> NullS]

\* prisma[model] / prisma.product: the collection an endpoint works on
CollectionOf(op, cs, ps) ==
    IF op \in {"PUT /data", "DELETE /data"} THEN cs ELSE ps

\* variant: the handler answers but does not return, and runs on
AnswerFallingThrough(i, req, status) ==
    /\ inflight' = [inflight EXCEPT ![i] = [req EXCEPT !.status = status]]
    /\ sent' = [sent EXCEPT ![i] = Append(@, status)]

\* the handler of request i has sent a response and returned
Answer(i, req, status) ==
    /\ inflight' = [inflight EXCEPT ![i] =
                       [req EXCEPT !.at = "done", !.status = status]]
    /\ sent' = [sent EXCEPT ![i] = Append(@, status)]

\* the handler of request i goes on to its next await
Await(i, req) ==
    /\ inflight' = [inflight EXCEPT ![i] = req]
    /\ UNCHANGED sent

\* the statuses express.json() answers with when it rejects a body: 400 for
\* JSON it cannot parse, 413 for a body over its size limit, 415 for a
\* charset or content encoding it does not support
ParserRejections == {400, 413, 415}

\* a request for record 1 arrives.  express.json() (mounted before the
\* routes) answers a body it rejects (rejected is the status, 0 when the
\* body passes) before auth(...) has set req.oidc, so no session is on
\* record for it; the /data handlers answer 401 without session; otherwise
\* the handler awaits findUnique.
Receive(i, op, sess, rejected) ==
    /\ inflight[i] = NotCalled
    /\ UNCHANGED <<server, cart, localStorage, page>>
    /\ LET req == [at |-> "findUnique", op |-> op, sess |-> sess,
                   rec |-> [id |-> 0], todo |-> <<>>, calls |-> <<>>,
                   status |-> 0]
       IN  IF rejected # 0
           THEN Answer(i, [req EXCEPT !.sess = NoSession], rejected)
           ELSE IF op \in {"PUT /data", "DELETE /data"} /\ ~IsAuthenticated(sess)
           THEN Answer(i, req, 401)
           ELSE Await(i, req)

\* findUnique({ where: { id }, include: { owner: true } }) returns or throws,
\* and the handler runs up to its next await
FindUnique(i, throws) ==
    /\ inflight[i].at = "findUnique"
    /\ UNCHANGED <<server, cart, localStorage, page>>
    /\ LET r == inflight[i]
           req == [r EXCEPT !.calls = Append(@, "findUnique")]
           found == ById(CollectionOf(r.op, cats, products), 1)
       IN  IF throws THEN Answer(i, req, 500)
           ELSE IF found = {} THEN Answer(i, req, NotFound(1))
           ELSE LET rec == CHOOSE x \in found : TRUE
                    owner == OwnerOf(users, rec)
                IN  IF IF r.op \in {"PUT /data", "DELETE /data"}
                       THEN DataForbidden(owner, r.sess)
                       ELSE ProductForbidden(owner, r.sess)
                    THEN Answer(i, req, 403)
                    ELSE Await(i,
                           [req EXCEPT
                              !.rec = rec,
                              !.at = CASE r.op \in {"PUT /data", "PUT /api/products"}
                                            -> "update"
                                       [] r.op = "DELETE /data" -> "delete"
                                       [] OTHER -> IF rec.images = <<>>
                                                   THEN "delete" ELSE "del",
                              !.todo = IF r.op = "DELETE /api/products"
                                       THEN rec.images ELSE <<>>])

\* variant: an update for an id without record stores the data as a record
PrismaUpdateOrCreate(coll, rid, data) ==
    IF ById(coll, rid) = {}
    THEN [threw |-> FALSE, coll |-> coll \cup {data @@ [id |-> rid]}]
    ELSE LET existing == CHOOSE x \in coll : x.id = rid
         IN  [threw |-> FALSE,
              coll |-> (coll \ {existing}) \cup {ApplyData(existing, data)}]

\* prisma update({ where: { id }, data }): throws when no record has the id
\* (P2025, record to update not found), else overwrites the fields of data
PrismaUpdate(coll, rid, data) ==
    IF ById(coll, rid) = {}
    THEN [threw |-> TRUE, coll |-> coll]
    ELSE LET existing == CHOOSE x \in coll : x.id = rid
         IN  [threw |-> FALSE,
              coll |-> (coll \ {existing}) \cup {ApplyData(existing, data)}]

\* the awaited update returns or throws
Update(i, throws) ==
    /\ inflight[i].at = "update"
    /\ UNCHANGED <<users, userNext, catNext, productNext, blobs, last, cart,
                   localStorage, page>>
    /\ LET r == inflight[i]
           req == [r EXCEPT !.calls = Append(@, "update")]
           u == IF r.op = "PUT /data"
                THEN PrismaUpdate(cats, 1, RequestBody(CatFaultBody))
                ELSE PrismaUpdate(products, 1, UpdateData(ProductFaultBody))
       IN  IF throws \/ u.threw
           THEN Answer(i, req, 500) /\ UNCHANGED <<cats, products>>
           ELSE /\ Answer(i, req, 200)
                /\ IF r.op = "PUT /data"
                   THEN cats' = u.coll /\ UNCHANGED products
                   ELSE products' = u.coll /\ UNCHANGED cats

\* delete({ where: { id } }) returns or throws; it throws when no record has
\* the id (Prisma P2025).  DELETE /data goes on to remove the image it read;
\* DELETE /api/products has removed the images before and answers.
DeleteRecord(i, throws) ==
    /\ inflight[i].at = "delete"
    /\ UNCHANGED <<users, userNext, catNext, productNext, blobs, last, cart,
                   localStorage, page>>
    /\ LET r == inflight[i]
           req == [r EXCEPT !.calls = Append(@, "delete")]
           found == ById(CollectionOf(r.op, cats, products), 1)
       IN  IF throws \/ found = {}
           THEN Answer(i, req, 500) /\ UNCHANGED <<cats, products>>
           ELSE IF r.op = "DELETE /data"
           THEN /\ cats' = cats \ found
                /\ UNCHANGED products
                /\ IF Truthy(r.rec.imageUrl)
                   THEN Await(i, [req EXCEPT !.at = "del",
                                             !.todo = <<r.rec.imageUrl>>])
                   ELSE Answer(i, req, 200)
           ELSE /\ products' = products \ found
                /\ UNCHANGED cats
                /\ Answer(i, req, 200)

\* del(url) of the next locator returns or throws; a throw is logged.  After
\* the last locator DELETE /data answers, DELETE /api/products goes on to
\* delete the product.
DelBlob(i, throws) ==
    /\ inflight[i].at = "del"
    /\ UNCHANGED <<users, userNext, cats, catNext, products, productNext, last,
                   cart, localStorage, page>>
    /\ LET r == inflight[i]
           url == Head(r.todo)
           req == [r EXCEPT !.calls = Append(@, "del " \o url),
                            !.todo = Tail(@)]
       IN  /\ blobs' = Del(blobs, url, IF throws THEN {url} ELSE {})
           /\ IF req.todo # <<>> THEN Await(i, req)
              ELSE IF r.op = "DELETE /data"
              THEN Answer(i, req, AfterCleanup(IF throws THEN {url} ELSE {}))
              ELSE Await(i, [req EXCEPT !.at = "delete"])

\* the awaited call of request i returns or throws
Settle(i) ==
    \E throws \in BOOLEAN :
        \/ FindUnique(i, throws)
        \/ Update(i, throws)
        \/ DeleteRecord(i, throws)
        \/ DelBlob(i, throws)

InitRace ==
    /\ users = BothUsers
    /\ userNext = 3
    /\ \/ cats = {AnnsCat, BobsCat} /\ catNext = 3
             /\ products = {} /\ productNext = 1
       \/ cats = {BobsCat} /\ catNext = 3
             /\ products = {AnnsProduct} /\ productNext = 2
    /\ blobs = Urls
    /\ last = Served("none", NoSession, 0, EmptyBody, 0, <<>>, "none", {})
    /\ sent = [i \in Requests |-> <<>>]
    /\ inflight = [i \in Requests |-> NotCalled]
    /\ cart = <<>>
    /\ localStorage = <<>>
    /\ page = NoPage

NextRace ==
    \/ \E i \in Requests, op \in WriteOps, s \in Sessions,
          rejected \in {0} \cup ParserRejections :
          Receive(i, op, s, rejected)
    \/ \E i \in Requests, throws \in BOOLEAN : FindUnique(i, throws)
    \/ \E i \in Requests, throws \in BOOLEAN : Update(i, throws)
    \/ \E i \in Requests, throws \in BOOLEAN : DeleteRecord(i, throws)
    \/ \E i \in Requests, throws \in BOOLEAN : DelBlob(i, throws)

SpecRace == InitRace /\ [][NextRace]_vars

\* every storage and asset-store call that is awaited returns or throws
SpecRaceFair == SpecRace /\ \A i \in Requests : WF_vars(Settle(i))

----------------------------------------------------------------------------
(* The server started without the auth middleware *)

\* the settings of auth0Config that come from the environment
Auth0Keys == {"secret", "baseURL", "clientID", "issuerBaseURL"}

\* missingAuth0: the keys whose setting is not there, env being those set
missingAuth0(env) == Auth0Keys \ env

\* the environments in which the server warns and does not mount auth(...)
IncompleteEnvs == {env \in SUBSET Auth0Keys : missingAuth0(env) # {}}

\* variant: the handlers see the session of the cookie however the server
\* was started
ReqOidcOfCookie(env, cookie) == cookie

\* req.oidc as the handlers see it: auth(auth0Config) sets it from the
\* request's session cookie; if the middleware is not mounted req.oidc is
\* undefined, and req.oidc?.isAuthenticated() with it
ReqOidc(env, cookie) ==
    IF missingAuth0(env) = {} THEN cookie ELSE NoSession

\* express.json() rejects the body of a request: the handler does not run
RejectBody(op, rid, status) ==
    /\ last' = Served(op, NoSession, rid, EmptyBody, status, <<>>, "parser", {})
    /\ UNCHANGED <<users, userNext, cats, catNext, products, productNext, blobs>>

\* the operations of the server that take a JSON body or change a record
BodyOps == {"POST /data", "PUT /data", "DELETE /data", "POST /api/products",
            "PUT /api/products", "DELETE /api/products"}

\* a store with the two identities and, possibly, a cat of Ann's, left by a
\* run of the server that had the middleware
InitNoAuth ==
    /\ users = BothUsers
    /\ userNext = 3
    /\ \/ cats = {} /\ catNext = 1
       \/ cats = {AnnsCat} /\ catNext = 2
    /\ products = {}
    /\ productNext = 1
    /\ blobs = Urls
    /\ last = Served("none", NoSession, 0, EmptyBody, 0, <<>>, "none", {})
    /\ Quiet

\* the requests of Next, with whatever cookie, served in an environment that
\* lacks some setting
NextNoAuth ==
    \E env \in IncompleteEnvs :
       \/ \E s \in Sessions, f \in 0..1 : GetUser(ReqOidc(env, s), f) /\ Respond
       \/ \E r \in BodyRequests({0}, CatBodies, CatFaultBody) :
             PostData(ReqOidc(env, r.sess), r.body, r.fail) /\ Respond
       \/ \E r \in BodyRequests(Ids, CatBodies, CatFaultBody) :
             PutData(ReqOidc(env, r.sess), r.id, r.body, r.fail) /\ Respond
       \/ \E r \in DeleteRequests :
             DeleteData(ReqOidc(env, r.sess), r.id, r.fail, r.blobFail) /\ Respond
       \/ \E r \in BodyRequests({0}, ProductBodies, ProductFaultBody) :
             PostProduct(ReqOidc(env, r.sess), r.body, r.fail) /\ Respond
       \/ \E r \in BodyRequests(Ids, ProductBodies, ProductFaultBody) :
             PutProduct(ReqOidc(env, r.sess), r.id, r.body, r.fail) /\ Respond
       \/ \E r \in DeleteRequests :
             DeleteProduct(ReqOidc(env, r.sess), r.id, r.fail, r.blobFail) /\ Respond
       \/ \E op \in BodyOps, rid \in Ids, status \in ParserRejections :
             RejectBody(op, rid, status) /\ Respond

SpecNoAuth == InitNoAuth /\ [][NextNoAuth]_vars

----------------------------------------------------------------------------
(* Properties *)

\* the request came with an authenticated session
HasSession(sess) == sess # NoSession

CatWrites == {"PUT /data", "DELETE /data"}
ProductWrites == {"PUT /api/products", "DELETE /api/products"}

\* the collection holds a record with this id whose owner is a stored
\* identity with another sub than the session's
OwnedByOther(coll, rid, sess) ==
    \E r \in coll : r.id = rid /\ \E o \in OwnerOf(users, r) : o.sub # sess.sub

\* the request just served (last') was a PUT or DELETE by an authenticated
\* caller on a record that, before the request, was owned by someone else
NonOwnerWrite ==
    /\ HasSession(last'.sess)
    /\ \/ last'.op \in CatWrites /\ OwnedByOther(cats, last'.id, last'.sess)
       \/ last'.op \in ProductWrites
            /\ OwnedByOther(products, last'.id, last'.sess)

\* C1: a PUT or DELETE on /data/:id or /api/products/:id by an authenticated
\* caller whose sub differs from the sub of the record's owner is answered 403
\* (500 when the store throws on the fetch), and leaves every record and
\* every stored asset as it was.
C1_NonOwnerDenied ==
    [][NonOwnerWrite =>
          /\ last'.status = (IF last'.fault = "none" THEN 403 ELSE 500)
          /\ UNCHANGED <<cats, products, blobs>>]_vars

\* a non-owner's DELETE of a cat with a stored image was answered 403
C1_Witness ==
    /\ last.op = "DELETE /data"
    /\ last.status = 403
    /\ HasSession(last.sess)
    /\ \E c \in cats :
          /\ c.id = last.id
          /\ c.imageUrl \in blobs
          /\ \E o \in OwnerOf(users, c) : o.sub # last.sess.sub

\* the request just served was a POST, PUT or DELETE on /data without session
AnonymousDataWrite ==
    /\ last'.op \in CatWrites \cup {"POST /data"}
    /\ ~HasSession(last'.sess)

Stored(coll, rid) == \E r \in coll : r.id = rid

\* the collection holds a record with this id that has no owner
Ownerless(coll, rid) ==
    \E r \in coll : r.id = rid /\ OwnerOf(users, r) = {}

\* the collection holds a record with this id whose owner has the session's sub
OwnedBySelf(coll, rid, sess) ==
    \E r \in coll : r.id = rid /\ \E o \in OwnerOf(users, r) : o.sub = sess.sub

\* the request just served was a PUT or DELETE on /api/products/:id without
\* session, on a product that was stored
AnonymousProductWrite ==
    /\ last'.op \in ProductWrites
    /\ ~HasSession(last'.sess)
    /\ Stored(products, last'.id)

\* C3 as stated: PUT and DELETE on /api/products/:id without session are
\* answered 401 and leave the product and the stored images unchanged.
C3_SessionRequired ==
    [][AnonymousProductWrite =>
          last'.status = 401 /\ UNCHANGED <<products, blobs>>]_vars

\* C3, amended: PUT and DELETE on /api/products/:id need no session.  Without
\* one the request is never answered 401 or 403, and on a stored product,
\* owned or not, it is answered 200 whenever the store accepts the calls: the
\* PUT has then stored the parsed price, the DELETE has removed the product.
C3_AnonymousProductWriteServed ==
    [][AnonymousProductWrite =>
          /\ last'.status \notin {401, 403}
          /\ last'.fault = "none" =>
                /\ last'.status = 200
                /\ last'.op = "PUT /api/products" =>
                      \E r \in products' :
                          r.id = last'.id
                              /\ r.price = parseFloat(last'.body, "price")
                /\ last'.op = "DELETE /api/products" =>
                      ~Stored(products', last'.id)]_vars

\* an anonymous PUT changed the price of a product that has an owner
C3_Witness ==
    /\ last.op = "PUT /api/products"
    /\ ~HasSession(last.sess)
    /\ last.status = 200
    /\ "price" \in DOMAIN last.body
    /\ \E r \in products : r.id = last.id /\ OwnerOf(users, r) # {}

\* the request just served was a PUT or DELETE on /data/:id by an
\* authenticated caller, on a cat that had no owner
OwnerlessCatWrite ==
    /\ last'.op \in CatWrites
    /\ HasSession(last'.sess)
    /\ Ownerless(cats, last'.id)

\* C4: a cat without owner is never updated or deleted: PUT and DELETE on it
\* by any authenticated caller are answered 403 (500 when the store throws on
\* the fetch), and whatever the request, the cat stays stored as it was.
C4_OwnerlessCatFrozen ==
    [][/\ OwnerlessCatWrite =>
              last'.status = (IF last'.fault = "none" THEN 403 ELSE 500)
       /\ \A c \in cats : OwnerOf(users, c) = {} => c \in cats']_vars

\* a PUT on the cat without owner was answered 403
C4_Witness ==
    /\ last.op = "PUT /data"
    /\ HasSession(last.sess)
    /\ last.status = 403
    /\ \E c \in cats : c.id = last.id /\ c.ownerId = NoOwner

\* the request just served was a PUT or DELETE on a product without owner
OwnerlessProductWrite ==
    /\ last'.op \in ProductWrites
    /\ Ownerless(products, last'.id)

\* C5 as stated: a product without owner is denied every mutation: PUT and
\* DELETE on it, by any caller, never change or remove it.
C5_OwnerlessProductDenied ==
    [][OwnerlessProductWrite =>
          last'.status # 200 /\ UNCHANGED products]_vars

\* C5, amended: a product without owner is open to every caller: PUT and
\* DELETE on it are never answered 401 or 403, and are answered 200 whenever
\* the store accepts the calls, the DELETE having removed the product.
C5_OwnerlessProductOpen ==
    [][OwnerlessProductWrite =>
          /\ last'.status \notin {401, 403}
          /\ last'.fault = "none" =>
                /\ last'.status = 200
                /\ last'.op = "DELETE /api/products" =>
                      ~Stored(products', last'.id)]_vars

\* an authenticated caller's PUT changed the images of a product without owner
C5_Witness ==
    /\ last.op = "PUT /api/products"
    /\ HasSession(last.sess)
    /\ last.status = 200
    /\ \E r \in products :
          r.id = last.id /\ r.ownerId = NoOwner /\ r.images # <<>>

\* the request just served was a PUT or DELETE by the owner of the record
OwnerWrite ==
    /\ HasSession(last'.sess)
    /\ \/ last'.op \in CatWrites /\ OwnedBySelf(cats, last'.id, last'.sess)
       \/ last'.op \in ProductWrites
            /\ OwnedBySelf(products, last'.id, last'.sess)

\* the record of the collection with the request's id holds every field value
\* the body supplied
HoldsSupplied(coll, fields) ==
    \E r \in coll :
        /\ r.id = last'.id
        /\ \A k \in DOMAIN last'.body \cap fields : r[k] = last'.body[k]

\* C6: with the store reachable, a PUT by the owner is answered 200 and the
\* stored record then holds the supplied field values; a DELETE by the owner
\* is answered 200 and the record is then absent.
C6_OwnerWritePersists ==
    [][OwnerWrite /\ last'.fault # "storage" =>
          /\ last'.status = 200
          /\ last'.op = "PUT /data" => HoldsSupplied(cats', CatFields)
          /\ last'.op = "PUT /api/products" => HoldsSupplied(products', {"images"})
          /\ last'.op = "DELETE /data" => ~Stored(cats', last'.id)
          /\ last'.op = "DELETE /api/products" => ~Stored(products', last'.id)]_vars

\* the request just served was a DELETE on a stored record that neither the
\* session check nor the ownership gate rejected, and the store carried out
\* its calls
AuthorizedDelete ==
    /\ \/ last'.op = "DELETE /data" /\ Stored(cats, last'.id)
       \/ last'.op = "DELETE /api/products" /\ Stored(products, last'.id)
    /\ last'.status \notin {401, 403}
    /\ last'.fault = "none"

\* C7: an authorized DELETE that the store carries out is answered 200 and
\* leaves the record absent, whichever of the record's asset removals fail.
C7_CleanupTolerated ==
    [][AuthorizedDelete =>
          /\ last'.status = 200
          /\ last'.op = "DELETE /data" => ~Stored(cats', last'.id)
          /\ last'.op = "DELETE /api/products" => ~Stored(products', last'.id)]_vars

\* a product with two images was deleted while one removal failed: the answer
\* is 200, the product is gone, the blob whose removal failed is still stored
C7_Witness ==
    /\ last.op = "DELETE /api/products"
    /\ HasSession(last.sess)
    /\ last.status = 200
    /\ last.failed = {"u1"}
    /\ Len(last.calls) = 4
    /\ ~Stored(products, last.id)
    /\ "u1" \in blobs /\ "u2" \notin blobs

\* C8: a PUT /data/:id by the owner is answered 200 whatever id, _id, ownerId
\* or owner the body carries (unless the store is unreachable), and after a
\* 200 the cat has the supplied name and imageUrl while its id and ownerId
\* are what they were.
C8_ProtectedKeysDiscarded ==
    [][/\ ( /\ last'.op = "PUT /data"
            /\ HasSession(last'.sess)
            /\ OwnedBySelf(cats, last'.id, last'.sess)
            /\ last'.fault # "storage" ) => last'.status = 200
       /\ ( last'.op = "PUT /data" /\ last'.status = 200 ) =>
             /\ HoldsSupplied(cats', CatFields)
             /\ \E c \in cats : \E d \in cats' :
                   c.id = last'.id /\ d.id = c.id /\ d.ownerId = c.ownerId
             /\ {c.id : c \in cats'} = {c.id : c \in cats}]_vars

\* the owner's PUT carried id, ownerId and name: the name was stored, the
\* owner is not the one the body named
C8_Witness ==
    /\ last.op = "PUT /data"
    /\ last.status = 200
    /\ {"id", "ownerId", "name"} \subseteq DOMAIN last.body
    /\ \E c \in cats :
          /\ c.id = last.id
          /\ c.name = last.body.name
          /\ c.ownerId # last.body.ownerId
          /\ \E o \in OwnerOf(users, c) : o.sub = last.sess.sub

\* every record of the collection that is still stored after the step has
\* the owner it had before, and a record that appears gets the next unused id
OwnersKept(coll, collAfter, nextId, nextAfter) ==
    /\ \A r \in coll : \A q \in collAfter : q.id = r.id => q.ownerId = r.ownerId
    /\ \A q \in collAfter :
          ~Stored(coll, q.id) => q.id = nextId /\ nextAfter = nextId + 1
    /\ nextAfter >= nextId
    /\ \A r \in coll : r.id < nextId

\* C9: owner immutability: no request on any endpoint changes the owner
\* reference of a stored record, and identifiers are not reused, so every
\* stored record has the owner (or the absence of owner) it was created with.
C9_OwnerImmutable ==
    [][/\ OwnersKept(cats, cats', catNext, catNext')
       /\ OwnersKept(products, products', productNext, productNext')]_vars

\* a PUT whose body named another owner was carried out on an owned product
C9_Witness ==
    /\ last.op = "PUT /api/products"
    /\ last.status = 200
    /\ "ownerId" \in DOMAIN last.body
    /\ \E r \in products :
          r.id = last.id /\ r.ownerId \in {u.id : u \in users}

\* the record a POST created is owned by the identity stored for the
\* session's sub
CreatedForCaller(coll) ==
    \E r \in coll :
        /\ r.id = last.id
        /\ \E u \in users : u.sub = last.sess.sub /\ r.ownerId = u.id
        /\ \A u \in users : u.sub = last.sess.sub => r.ownerId = u.id

\* C10: a record created by an authenticated caller is owned by that caller:
\* after a 201 to POST /data, or to POST /api/products with a session, the
\* created record's ownerId is the id of the identity resolved from the
\* caller's sub, whatever the body carries.
C10_CreatorOwns ==
    /\ ( last.op = "POST /data" /\ last.status = 201 ) => CreatedForCaller(cats)
    /\ ( last.op = "POST /api/products" /\ last.status = 201
            /\ HasSession(last.sess) ) => CreatedForCaller(products)

\* a POST /data whose body named another owner created a cat of the caller
C10_Witness ==
    /\ last.op = "POST /data"
    /\ last.status = 201
    /\ "ownerId" \in DOMAIN last.body
    /\ CreatedForCaller(cats)

\* at most one identity is stored per sub
OneIdentityPerSub == \A u \in users : \A v \in users : u.sub = v.sub => u = v

\* C11: identity uniqueness: whatever the interleaving of concurrent first
\* requests with one sub, at most one identity is stored per sub and none of
\* the requests fails because another one created the identity.
C11_UniqueAndUnfailing ==
    /\ OneIdentityPerSub
    /\ \A i \in DOMAIN inflight :
          inflight[i].at = "done" => inflight[i].wrote # "nothing"

\* the profile fields of an identity
ProfileFields == {"name", "email", "picture"}

\* this step ends call i with a write for principal p
Resolves(i, p) ==
    /\ inflight[i].at = "checked"
    /\ inflight'[i].at = "done"
    /\ inflight'[i].wrote # "nothing"
    /\ inflight'[i].p = p

\* C12: when a call of the resolver has written, exactly one identity is
\* stored for the principal's sub and its name, email and picture are the
\* values of that call, null where the call supplied none or an empty one;
\* an identity that was stored before keeps its id.
C12_LatestProfileStored ==
    [][\A i \in Calls : \A p \in ProfilePrincipals :
          Resolves(i, p) =>
             /\ Cardinality({u \in users' : u.sub = p.sub}) = 1
             /\ \A u \in users' : u.sub = p.sub =>
                   /\ \A k \in ProfileFields :
                         u[k] = (IF k \in DOMAIN p /\ p[k] # "" THEN p[k]
                                 ELSE "null")
                   /\ \A o \in users : o.sub = p.sub => u.id = o.id]_vars

\* s1 was resolved as Ann with an email, then as Anna without one: one
\* identity is stored for s1, named Anna, with the picture and no email
C12_Witness ==
    /\ \E i \in Calls :
          /\ inflight[i].at = "done"
          /\ inflight[i].wrote = "create"
          /\ inflight[i].p = [sub |-> "s1", name |-> "Ann", email |-> "ann@x"]
    /\ last.sess = [sub |-> "s1", name |-> "Anna", picture |-> "pic1"]
    /\ last.status = 200
    /\ inflight[last.id].wrote = "update"
    /\ {u \in users : u.sub = "s1"} =
          {[id |-> "U1", sub |-> "s1", name |-> "Anna", email |-> "null",
            picture |-> "pic1"]}

\* the request just served was a PUT or DELETE by an authenticated caller on
\* an id for which no record was stored
MissingWrite ==
    /\ HasSession(last'.sess)
    /\ \/ last'.op \in CatWrites /\ ~Stored(cats, last'.id)
       \/ last'.op \in ProductWrites /\ ~Stored(products, last'.id)

\* C13: a PUT or DELETE by an authenticated caller on an id without record
\* is answered 404 (500 when the store throws on the fetch); the fetch is the
\* only call it issues, and no store, record or blob changes.
C13_MissingNotFound ==
    [][MissingWrite =>
          /\ last'.status = (IF last'.fault = "none" THEN 404 ELSE 500)
          /\ Len(last'.calls) = 1
          /\ last'.calls[1] \in {"cats.findUnique", "product.findUnique"}
          /\ UNCHANGED <<users, userNext, cats, catNext, products, productNext,
                         blobs>>]_vars

\* a DELETE on a product id without record, while a cat with that id is
\* stored, was answered 404
C13_Witness ==
    /\ last.op = "DELETE /api/products"
    /\ HasSession(last.sess)
    /\ last.status = 404
    /\ ~Stored(products, last.id)
    /\ Stored(cats, last.id)

\* C14: when a storage call fails during a request, the response is a 500
\* whose body carries a reason string and nothing of the storage error: the
\* error's text is not in the body.
C14_NoDetailInResponse ==
    last.fault = "storage" =>
        /\ last.status = 500
        /\ "error" \in DOMAIN sent
        /\ \A k \in DOMAIN sent : sent[k] # ErrorText("storage")

\* the request served last was a GET /data that the store answered
Listed == last.op = "GET /data" /\ last.fault = "none"

\* C15: every caller, with or without session, can view all cats: GET /data
\* is answered 200 with every stored record, each with its owner, however
\* many records are stored.
C15_ListsEveryRecord ==
    Listed =>
        /\ last.status = 200
        /\ sent = {IncludeOwner(users, c) : c \in cats}

\* the step called put(), or a blob appeared in the store
PutCalled ==
    /\ last'.op = "POST /api/upload"
    /\ \/ blobs' # blobs
       \/ \E i \in DOMAIN last'.calls : last'.calls[i] = "put"

\* C16: an image reaches the blob store through POST /api/upload only if the
\* request is authenticated, the file's type is JPEG, PNG, WebP or SVG and
\* the file is at most 10MB long: otherwise put() is not called and no blob
\* is stored.
C16_UploadGuarded ==
    [][PutCalled =>
          /\ HasSession(last'.sess)
          /\ last'.body.mime \in {"image/jpeg", "image/png", "image/webp",
                                  "image/svg+xml"}
          /\ last'.body.size <= 10485760
          /\ blobs \subseteq blobs']_vars

\* an authenticated upload of a PNG of exactly 10MB was stored
C16_Witness ==
    /\ last.op = "POST /api/upload"
    /\ HasSession(last.sess)
    /\ last.status = 200
    /\ last.body = [mime |-> "image/png", size |-> 10485760]
    /\ last.calls = <<"sharp", "put">>
    /\ "b1" \in blobs

\* C17: the cart is persisted: after every addToCart, updateQuantity and
\* removeFromCart the document stored under 'revamp_cart' is the cart in
\* memory, so that a page load, which reads the cart from that key, restores
\* the cart as it was.
C17_CartPersisted == JSONparse(StoredCart(localStorage)) = cart

\* the names under which `last` records the asset removals and the record
\* deletions
DelNames == {"del " \o u : u \in Urls}
DeleteNames == {"cats.delete", "product.delete"}

\* the request just served was a DELETE that got past the session check and
\* the ownership gate on a stored record
GatePassedDelete ==
    /\ \/ last'.op = "DELETE /data" /\ Stored(cats, last'.id)
       \/ last'.op = "DELETE /api/products" /\ Stored(products, last'.id)
    /\ last'.status \in {200, 500}
    /\ Len(last'.calls) > 1

\* C18: in a delete the record is removed from the store first and asset
\* removal comes after: no del call is issued before the record's delete
\* call, and a request that leaves the record stored has removed no asset.
C18_RecordBeforeAssets ==
    [][GatePassedDelete =>
          /\ \A i \in DOMAIN last'.calls : \A j \in DOMAIN last'.calls :
                (last'.calls[i] \in DelNames /\ last'.calls[j] \in DeleteNames)
                    => j < i
          /\ (Stored(cats', last'.id) /\ last'.op = "DELETE /data")
                => blobs' = blobs
          /\ (Stored(products', last'.id) /\ last'.op = "DELETE /api/products")
                => blobs' = blobs]_vars

\* the del calls among the calls of a request, in order
DelCallsOf(calls) == SelectSeq(calls, LAMBDA c : c \in DelNames)

\* the asset locators of the record a DELETE is about, in order
LocatorsOf(op, rid) ==
    IF op = "DELETE /data"
    THEN LET c == CHOOSE r \in cats : r.id = rid
         IN  IF c.imageUrl \in Urls THEN <<c.imageUrl>> ELSE <<>>
    ELSE (CHOOSE r \in products : r.id = rid).images

\* C19: the asset removals of a delete are independent: an authorized delete
\* that the store carries out attempts each locator of the record exactly
\* once, in order, whichever attempts fail; every locator whose removal did
\* not fail is gone afterwards, and a failed one is left as it was.
C19_RemovalsIndependent ==
    [][AuthorizedDelete =>
          LET locators == LocatorsOf(last'.op, last'.id)
          IN  /\ DelCallsOf(last'.calls) =
                    [i \in 1..Len(locators) |-> "del " \o locators[i]]
              /\ \A i \in 1..Len(locators) :
                    IF locators[i] \in last'.failed
                    THEN locators[i] \in blobs' <=> locators[i] \in blobs
                    ELSE locators[i] \notin blobs']_vars

\* the removal of the first of two images failed and the second image was
\* removed all the same
C19_Witness ==
    /\ last.op = "DELETE /api/products"
    /\ last.status = 200
    /\ last.calls = <<"product.findUnique", "del u1", "del u2", "product.delete">>
    /\ last.failed = {"u1"}
    /\ blobs = {"u1"}

\* C20: each call of the identity resolver performs exactly one storage
\* write, as one atomic upsert: a call that has ended has created or updated
\* the identity, and between the check of a call and its write no other call
\* writes.
C20_OneAtomicWrite ==
    [][\A i \in Calls :
          /\ (inflight[i].at = "checked" /\ users' # users)
                => inflight'[i].at = "done"
          /\ inflight'[i].at = "done"
                => inflight'[i].wrote \in {"create", "update"}]_vars

\* this step is a call of the resolver with no principal, or with a principal
\* whose sub is absent or empty
InvalidCall(i) ==
    /\ inflight[i] = NotCalled
    /\ inflight'[i] # NotCalled
    /\ "sub" \in DOMAIN inflight'[i].p => inflight'[i].p.sub = ""

\* C21: resolving a principal that is absent, or whose sub is absent or
\* empty, fails with the invalid-principal error before any storage call: the
\* call never reaches the upsert, no call is issued, and the stored
\* identities are unchanged.
C21_InvalidPrincipalRejected ==
    [][\A i \in Calls :
          InvalidCall(i) =>
             /\ inflight'[i].at = "thrown"
             /\ last'.fault = "principal"
             /\ last'.status = 500
             /\ last'.calls = <<>>
             /\ sent'.details = "Cannot ensure user without a valid Auth0 sub"
             /\ UNCHANGED <<users, userNext>>]_vars

\* a principal with an empty sub was refused while an identity was stored,
\* and no identity with an empty sub exists
C21_Witness ==
    /\ \E i \in Calls :
          /\ inflight[i].at = "thrown"
          /\ "sub" \in DOMAIN inflight[i].p
          /\ last.id = i
    /\ last.fault = "principal"
    /\ users # {}
    /\ \A u \in users : u.sub # ""

\* the identity stored for the session's sub holds the session's profile
\* (an absent or empty field as null)
IdentityCurrent(us, sess) ==
    \E u \in us :
        /\ u.sub = sess.sub
        /\ \A k \in ProfileFields : u[k] = OrNull(sess, k)

\* the requests whose handler calls ensureUser
Resolving == {"GET /api/user", "POST /data", "POST /api/products"}

\* C22 as stated: after any authenticated request of any kind that did not
\* fail, PUT and DELETE included, an identity is stored for the caller's sub
\* and holds the name, email and picture of the session principal.
C22_ResolvedOnEveryRequest ==
    (HasSession(last.sess) /\ last.op # "none" /\ last.status # 500)
        => IdentityCurrent(users, last.sess)

\* C22, amended: the identity is created or overwritten by the requests that
\* resolve it: after a GET /api/user, POST /data or POST /api/products with a
\* session whose upsert the store carried out, the identity of the caller's
\* sub is stored with the session's profile.  A request of any other kind
\* (PUT and DELETE on /data/:id and /api/products/:id), and any request
\* without session, leaves the stored identities as they were.  No request
\* removes an identity or changes its id or sub.
C22_ResolvedByResolvingRequests ==
    [][/\ ( /\ HasSession(last'.sess)
            /\ last'.op \in Resolving
            /\ last'.status \in {200, 201} ) => IdentityCurrent(users', last'.sess)
       /\ ( last'.op \notin Resolving \/ ~HasSession(last'.sess) )
             => UNCHANGED <<users, userNext>>
       /\ \A u \in users : \E v \in users' : v.id = u.id /\ v.sub = u.sub]_vars

\* the caller's DELETE of a record that is not there was served while no
\* identity was stored for the caller, and none was created
C22_Witness ==
    /\ last.op = "DELETE /data"
    /\ HasSession(last.sess)
    /\ last.sess.sub = "s2"
    /\ last.status = 404
    /\ \E u \in users : u.sub = "s1" /\ u.name = "Ann" /\ u.picture = "null"
    /\ \A u \in users : u.sub # "s2"

\* the statuses of the table of endpoints for PUT and DELETE
TableStatuses == {200, 401, 403, 404, 500}

\* request i has arrived
Received(i) == inflight[i] # NotCalled

\* C23 as stated: every PUT or DELETE request on /data/:id or
\* /api/products/:id, provided every awaited call returns or throws, ends with
\* exactly one response, whose status is one of 200, 401, 403, 404, 500.
C23_OneResponseOfFive ==
    /\ [](\A i \in Requests :
            /\ Len(sent[i]) <= 1
            /\ \A k \in DOMAIN sent[i] : sent[i][k] \in TableStatuses)
    /\ \A i \in Requests :
          Received(i) ~> (inflight[i].at = "done" /\ Len(sent[i]) = 1)

\* C23, amended: such a request ends with exactly one response, and its
\* status is one of 200, 401, 403, 404, 500, or the body parser's 400, 413
\* or 415 when it rejects the body; a request whose handler ran is never
\* answered with one of those.
C23_OneResponseOfTableOrParser ==
    /\ [](\A i \in Requests :
            /\ Len(sent[i]) <= 1
            /\ \A k \in DOMAIN sent[i] :
                  /\ sent[i][k] \in TableStatuses \cup ParserRejections
                  /\ sent[i][k] \in ParserRejections => inflight[i].calls = <<>>
            /\ (Received(i) /\ inflight[i].at = "done") =>
                  sent[i] = <<inflight[i].status>>)
    /\ \A i \in Requests :
          Received(i) ~> (inflight[i].at = "done" /\ Len(sent[i]) = 1)

\* a DELETE of the product went through its four calls and was answered
\* once, while the other request was answered 400 by the parser
C23_Witness ==
    /\ \E i \in Requests :
          /\ Received(i)
          /\ inflight[i].op = "DELETE /api/products"
          /\ inflight[i].calls = <<"findUnique", "del u1", "del u2", "delete">>
          /\ sent[i] = <<200>>
    /\ \E j \in Requests : sent[j] = <<400>>

\* this step is the update of a PUT /data/:id whose record has been deleted
\* since the PUT fetched it and passed the gate
UpdateAfterDelete(i) ==
    /\ Received(i)
    /\ inflight[i].op = "PUT /data"
    /\ inflight[i].at = "update"
    /\ inflight'[i].at = "done"
    /\ ~Stored(cats, 1)

\* request j is a DELETE /data/:id that removed the record and answered
Deleted(j) ==
    /\ Received(j)
    /\ inflight[j].op = "DELETE /data"
    /\ inflight[j].at = "done"
    /\ \E k \in DOMAIN inflight[j].calls : inflight[j].calls[k] = "del u1"

\* C26: when a DELETE by the owner commits between the fetch-and-authorize
\* step of the owner's PUT on the same cat and the PUT's update, the PUT is
\* answered 500, the record stays absent and no other record changes; the
\* DELETE that removed the record is answered 200.
C26_UpdateAfterDeleteFails ==
    [][\A i \in Requests :
          /\ UpdateAfterDelete(i) =>
                /\ inflight'[i].status = 500
                /\ sent'[i] = <<500>>
                /\ ~Stored(cats', 1)
                /\ UNCHANGED <<cats, products, users, blobs>>
          /\ Deleted(i) => sent[i] = <<200>>]_vars

\* the owner's PUT was answered 500 after the owner's DELETE had removed
\* the cat and been answered 200; Bob's cat is as it was
C26_Witness ==
    /\ \E i \in Requests :
          /\ Received(i)
          /\ inflight[i].op = "PUT /data"
          /\ inflight[i].sess \in Principals
          /\ inflight[i].sess.sub = "s1"
          /\ inflight[i].calls = <<"findUnique", "update">>
          /\ sent[i] = <<500>>
    /\ \E j \in Requests : Deleted(j) /\ sent[j] = <<200>>
    /\ cats = {BobsCat}

\* the number of times the calls hold this one
RECURSIVE Count(_, _)
Count(calls, c) ==
    IF calls = <<>> THEN 0
    ELSE (IF Head(calls) = c THEN 1 ELSE 0) + Count(Tail(calls), c)

\* the calls request i has issued so far
CallsOf(i) == IF Received(i) THEN inflight[i].calls ELSE <<>>

\* requests i and j are DELETE requests of the record's owner on one endpoint
OwnerDeletes(i, j, ops) ==
    /\ Received(i) /\ Received(j)
    /\ inflight[i].op \in ops
    /\ inflight[j].op = inflight[i].op
    /\ inflight[i].sess \in Principals /\ inflight[i].sess.sub = "s1"
    /\ inflight[j].sess = inflight[i].sess

\* C27: of two DELETE requests by the owner on the same record, however they
\* interleave, at most one is answered 200, and each asset locator of the
\* record is submitted to the asset store at most once in total, for
\* DELETE /data/:id and for DELETE /api/products/:id.
C27_DeletedOnce ==
    \A i \in Requests : \A j \in Requests \ {i} :
        OwnerDeletes(i, j, {"DELETE /data", "DELETE /api/products"}) =>
            /\ ~(sent[i] = <<200>> /\ sent[j] = <<200>>)
            /\ \A u \in Urls :
                  Count(CallsOf(i), "del " \o u)
                      + Count(CallsOf(j), "del " \o u) <= 1

\* the subs of the identities that the owner reference of the cat with this
\* id points to: none when the cat has no owner or the owner is not stored
OwnerSubs(rid) ==
    {u.sub : u \in {v \in users : \E c \in cats : c.id = rid /\ c.ownerId = v.id}}

\* the request just served was a PUT or DELETE with a session on a stored
\* cat, and the store carried out the fetch
GateDecided ==
    /\ last'.op \in CatWrites
    /\ HasSession(last'.sess)
    /\ Stored(cats, last'.id)
    /\ "cats.findUnique" \in {last'.calls[k] : k \in DOMAIN last'.calls}
    /\ ~(last'.fault # "none" /\ Len(last'.calls) = 1)

\* C24: the gate of /data/:id decides by the subject identifier alone: the
\* caller passes (is not answered 403) exactly when the cat has a stored
\* owner whose sub is the session's sub, whatever the internal ids are; with
\* two identities of one sub, the caller passes on the cats of either.
C24_DecidedBySub ==
    [][GateDecided =>
          (last'.status # 403 <=> last'.sess.sub \in OwnerSubs(last'.id))]_vars

\* Ann updated the cat of her second identity while her first one is stored
C24_Witness ==
    /\ last.op = "PUT /data"
    /\ last.status = 200
    /\ HasSession(last.sess)
    /\ last.sess.sub = "s1"
    /\ \E c \in cats : c.id = last.id /\ c.ownerId = "U3" /\ c.name = "n2"
    /\ \E u \in users : u.id = "U1" /\ u.sub = "s1"

\* the request just served was a PUT or DELETE of the page's session on a
\* stored cat for which the page shows a card, and the store carried out the
\* fetch
CardRequest ==
    /\ page # NoPage
    /\ last'.op \in CatWrites
    /\ last'.sess = page.session
    /\ Stored(cats, last'.id)
    /\ \E c \in page.cards : c.id = last'.id
    /\ last'.fault # "storage"

C28_AnsweredOnce ==
    (last.op = "POST /api/upload" /\ HasSession(last.sess)) => Len(sent) = 1

\* the cart lines have whole quantities from 1 up, are lines of products
\* the catalogue holds, and differ pairwise in (productId, options)
CartLinesSound(c) ==
    \A i \in 1..Len(c) :
        /\ c[i].quantity >= 1
        /\ c[i].productId \in {q.id : q \in Catalogue}
        /\ \A j \in 1..Len(c) :
               (c[j].productId = c[i].productId /\ c[j].options = c[i].options)
                  => j = i

\* C29: after any sequence of addToCart, updateQuantity with whole
\* quantities (0 and negative ones included) and removeFromCart, every cart
\* line has a quantity of at least 1 and no two lines have the same
\* (productId, options) pair; no line is ever made for a product id the
\* products API does not return.
C29_CartInvariant == CartLinesSound(cart)

\* a cart with two lines of one product that differ in their options, one
\* of them at a quantity above 1
C29_Witness ==
    /\ Len(cart) = 2
    /\ cart[1].productId = cart[2].productId
    /\ cart[1].options # cart[2].options
    /\ cart[2].quantity > 1
    /\ C29_CartInvariant

\* the operations that change the cats collection
DataWriteOps == {"POST /data", "PUT /data", "DELETE /data"}

\* C30 as stated: with the Auth0 settings missing and the middleware not
\* mounted, every POST /data, PUT /data/:id and DELETE /data/:id is answered
\* 401, and the cats collection stays what it was at the start.
C30_WritesRefused ==
    /\ [](last.op \in DataWriteOps => last.status = 401)
    /\ [][cats' = cats]_vars

\* C30, amended: every such request is answered 401 by its handler, unless
\* the body parser rejects its body and answers 400, 413 or 415 before the
\* handler; no storage call is made for it and the cats collection stays
\* what it was at the start.
C30_WritesRefusedOrRejected ==
    /\ [](last.op \in DataWriteOps =>
            /\ last.status \in {401} \cup ParserRejections
            /\ last.status = 401 <=> last.fault # "parser"
            /\ last.calls = <<>>)
    /\ [][cats' = cats /\ catNext' = catNext]_vars

\* a PUT on Ann's cat was answered 401 by the handler, which saw no
\* session, and the cat is as it was
C30_Witness ==
    /\ last.op = "PUT /data"
    /\ last.id = 1
    /\ last.status = 401
    /\ last.sess = NoSession
    /\ last.fault = "none"
    /\ cats = {AnnsCat}
====
